---- MODULE Spec2Model ----
(***************************************************************************)
(* A model of the fasttravel realtime server and client SDK:               *)
(*   - the hosted-cospace registry and the placement tasks of the          *)
(*     CospaceManager (cospace_manager.rs), with the status handler        *)
(*     (websocket_server.rs);                                              *)
(*   - the frame codec (fasttravel-rt-proto/src/helpers.rs);               *)
(*   - the promise bookkeeping of the server endpoint                      *)
(*     (client_connection_actor.rs) and of the client broker               *)
(*     (message_broker.rs).                                                *)
(* Each part has its own next-state relation and specification; the        *)
(* variables of the other parts stay unchanged.                            *)
(***************************************************************************)
EXTENDS Integers, Sequences, FiniteSets, TLC

VARIABLES
    \* ---- CospaceManager / HostedCospaces ----
    scheduled,      \* HostedCospacesInner.scheduled: set of cospace ids
    failed,         \* HostedCospacesInner.failed: set of cospace ids
    cospaces,       \* HostedCospacesInner.cospaces: set of hosted cospace ids
    task,           \* per cospace id: the placement task [pc, alloc]
    worker,         \* per cospace id: the dedicated worker process
    mishap,         \* per cospace id: which placement step failed ("none" if none)
    terminated,     \* per cospace id: _terminate_cospace was called for it
    nextId,         \* number of CospaceId::generate() calls so far
    query,          \* the status handler: the request being handled, or the
                    \* last answer given [id, pc, status]; whether the id was
                    \* returned and not terminated when the request came,
                    \* and the last answer given for each id
    \* ---- frame codec (helpers.rs) ----
    cin,            \* the call being evaluated [op, service, id, payload]
    wire,           \* the frame on the wire, an Option<ProtoBytes> [some, bytes]
    cout,           \* the ProtoMessage process_realtime_message returned
    \* ---- promise tables (client_connection_actor.rs, message_broker.rs) ----
    ep,             \* the server endpoint: request_id_counter, service_promises,
                    \* the socket feeder, the client requests being answered
    br,             \* the client broker: request_id_counter and its RefCell
                    \* borrow flag, service_promises, the connection
    caller,         \* per call of send_proto_request_to_server: its future
    s2c,            \* frames in flight from the server to the client
    c2s,            \* frames in flight from the client to the server
    \* ---- CospaceActor and its client connections (cospace_actor.rs) ----
    cosp,           \* the CospaceActor: client_id_counter, clients, its mailbox
    conn,           \* per websocket connection: how far its creation went, the
                    \* ClientId, the socket, the service messages it was told
    bcast,          \* per broadcast: the clients map when it was handled
    \* ---- the websocket route (websocket_server.rs) ----
    connect,        \* the last connect request: the cospace and the ticket it
                    \* named, the registry as the handler read it, the response
    \* ---- a shared node (cospace_manager.rs, service_actor.rs) ----
    node,           \* the CospaceNodeManager of a shared node: its cospace
                    \* map, the CospaceActors it created, the messages of
                    \* the shared services
    \* ---- the host route (websocket_server.rs) ----
    host            \* per cospace id: the body of the host request it was
                    \* scheduled for and the ModelRoot given to its task

placementVars ==
    <<scheduled, failed, cospaces, task, worker, mishap, terminated, nextId,
      query>>

codecVars == <<cin, wire, cout>>

promiseVars == <<ep, br, caller, s2c, c2s>>

cospaceVars == <<cosp, conn, bcast>>

connectVars == <<connect>>

nodeVars == <<node>>

hostVars == <<host>>

vars ==
    <<placementVars, codecVars, promiseVars, cospaceVars, connectVars, nodeVars,
      hostVars>>

\* What the actions of one part leave unchanged: the other parts.
notPlacement ==
    <<codecVars, promiseVars, cospaceVars, connectVars, nodeVars,
      hostVars>>

notCodec ==
    <<placementVars, promiseVars, cospaceVars, connectVars, nodeVars,
      hostVars>>

notPromise ==
    <<placementVars, codecVars, cospaceVars, connectVars, nodeVars,
      hostVars>>

notCospace ==
    <<placementVars, codecVars, promiseVars, connectVars, nodeVars,
      hostVars>>

(***************************************************************************)
(* Bounds                                                                  *)
(***************************************************************************)
MaxCospaces == 2

\* placements under the fair specification
MaxFairCospaces == 1

CospaceIds == 1..(IF MaxCospaces > MaxFairCospaces THEN MaxCospaces ELSE MaxFairCospaces)

\* enum ResourceAllocation
ResourceAllocation == {"Dedicated", "Shared"}

(***************************************************************************)
(* HostedCospaces: the three maps and their operations.  Every DashMap     *)
(* call is one atomic step; an operation made of two calls is two steps.   *)
(***************************************************************************)
is_scheduled(x) == x \in scheduled

is_failed(x) == x \in failed

is_hosted(x) == x \in cospaces

\* HostedCospaces::scheduled: scheduled.insert(uuid, request)
hc_scheduled(x) == scheduled' = scheduled \cup {x}

\* HostedCospaces::failed, first call: scheduled.remove(uuid)
hc_failed_remove(x) == scheduled' = scheduled \ {x}

\* HostedCospaces::failed, second call (only if the remove returned Some)
hc_failed_insert(x) == failed' = failed \cup {x}

\* HostedCospaces::insert_cospace, first call: cospaces.insert(uuid, cospace)
hc_insert_cospace_insert(x) == cospaces' = cospaces \cup {x}

\* HostedCospaces::insert_cospace, second call: scheduled.remove(uuid)
hc_insert_cospace_remove(x) == scheduled' = scheduled \ {x}

\* HostedCospaces::_remove_cospace: cospaces.remove(uuid)
hc_remove_cospace(x) == cospaces' = cospaces \ {x}

(***************************************************************************)
(* Initial state: CospaceManagerInner::new -> HostedCospaces::new          *)
(***************************************************************************)
InitPlacement ==
    /\ scheduled = {}
    /\ failed = {}
    /\ cospaces = {}
    /\ task = [x \in CospaceIds |-> [pc |-> "none", alloc |-> "none"]]
    /\ worker = [x \in CospaceIds |-> "none"]
    /\ mishap = [x \in CospaceIds |-> "none"]
    /\ terminated = [x \in CospaceIds |-> FALSE]
    /\ nextId = 0
    /\ query = [id |-> 0, pc |-> "idle", status |-> "NONE", live |-> FALSE,
                last |-> [x \in CospaceIds |-> "NONE"]]

(***************************************************************************)
(* The placement operations of the CospaceManager.                         *)
(***************************************************************************)
SetPc(x, p) == task' = [task EXCEPT ![x].pc = p]

\* spawn_cospace_in_dedicated_node: generate the id, mark it scheduled, spawn
\* the task; spawn_with_handle may fail, and then Err is returned.
schedule_in_dedicated_node(limit) ==
    /\ nextId < limit
    /\ \E spawned \in BOOLEAN :
        LET x == nextId + 1 IN
        /\ nextId' = x
        /\ hc_scheduled(x)
        /\ task' = [task EXCEPT ![x] =
                      [pc |-> IF spawned THEN "spawn_worker" ELSE "not_spawned",
                       alloc |-> "Dedicated"]]
        /\ mishap' = [mishap EXCEPT ![x] =
                        IF spawned THEN "none" ELSE "task_not_spawned"]
    /\ UNCHANGED <<failed, cospaces, worker, terminated, query>>

\* The operation called with a ModelRoot that plays no part afterwards.
spawn_cospace_in_dedicated_node(limit) ==
    /\ schedule_in_dedicated_node(limit)
    /\ UNCHANGED notPlacement

\* spawn_cospace_in_main_node: the node manager address is known (alloc is
\* ResourceAllocation::Shared); spawn_ok.
spawn_cospace_in_main_node(limit) ==
    /\ nextId < limit
    /\ LET x == nextId + 1 IN
        /\ nextId' = x
        /\ hc_scheduled(x)
        /\ task' = [task EXCEPT ![x] = [pc |-> "ask", alloc |-> "Shared"]]
    /\ UNCHANGED notPlacement
    /\ UNCHANGED <<failed, cospaces, worker, mishap, terminated, query>>

\* spawn_cospace_in_shared_node: as in the main node, with the shared manager.
spawn_cospace_in_shared_node(limit) ==
    /\ nextId < limit
    /\ LET x == nextId + 1 IN
        /\ nextId' = x
        /\ hc_scheduled(x)
        /\ task' = [task EXCEPT ![x] = [pc |-> "ask", alloc |-> "Shared"]]
    /\ UNCHANGED notPlacement
    /\ UNCHANGED <<failed, cospaces, worker, mishap, terminated, query>>

\* The dedicated task: system.spawn_worker_node(config_node).await
SpawnWorkerNode(x) ==
    /\ task[x].pc = "spawn_worker"
    /\ \E ok \in BOOLEAN :
        IF ok
        THEN /\ worker' = [worker EXCEPT ![x] = "running"]
             /\ SetPc(x, "get_remote_addr")
             /\ UNCHANGED mishap
        ELSE /\ SetPc(x, "failed_remove")
             /\ mishap' = [mishap EXCEPT ![x] = "spawn_worker"]
             /\ UNCHANGED worker
    /\ UNCHANGED notPlacement
    /\ UNCHANGED <<scheduled, failed, cospaces, terminated, nextId,
                   query>>

\* The dedicated task: system.get_remote_addr(node_id, NODE_MANAGER_TAG).await
GetRemoteAddr(x) ==
    /\ task[x].pc = "get_remote_addr"
    /\ \E found \in BOOLEAN :
        IF found
        THEN /\ SetPc(x, "ask")
             /\ UNCHANGED mishap
        ELSE /\ SetPc(x, "shutdown_worker")
             /\ mishap' = [mishap EXCEPT ![x] = "get_remote_addr"]
    /\ UNCHANGED notPlacement
    /\ UNCHANGED <<scheduled, failed, cospaces, worker, terminated,
                   nextId, query>>

\* The dedicated task, address lookup failed: system.shutdown_worker_node
ShutdownWorkerNode(x) ==
    /\ task[x].pc = "shutdown_worker"
    /\ worker' = [worker EXCEPT ![x] = "down"]
    /\ SetPc(x, "failed_remove")
    /\ UNCHANGED notPlacement
    /\ UNCHANGED <<scheduled, failed, cospaces, mishap, terminated,
                   nextId, query>>

\* HostedCospaces::failed, the remove: the insert follows only on Some.
FailedRemove(x) ==
    /\ task[x].pc = "failed_remove"
    /\ hc_failed_remove(x)
    /\ SetPc(x, IF is_scheduled(x) THEN "failed_insert" ELSE "done")
    /\ UNCHANGED notPlacement
    /\ UNCHANGED <<failed, cospaces, worker, mishap, terminated,
                   nextId, query>>

FailedInsert(x) ==
    /\ task[x].pc = "failed_insert"
    /\ hc_failed_insert(x)
    /\ SetPc(x, "done")
    /\ UNCHANGED notPlacement
    /\ UNCHANGED <<scheduled, cospaces, worker, mishap, terminated,
                   nextId, query>>

\* What spawn_cospace_in_node does with the result of the ask.
AfterAskBroken(outcome) == "done"

AfterAsk(outcome) == IF outcome = "some" THEN "insert_cospace" ELSE "done"

\* spawn_cospace_in_node: node_mgr_addr.ask_addr(CreateCospaceActorMessage).await
\* is Ok(Some(addr)), Ok(None) or Err(e); the last two are only logged.
AskCreateCospaceActor(x) ==
    /\ task[x].pc = "ask"
    /\ \E outcome \in {"some", "none", "err"} :
        /\ SetPc(x, AfterAsk(outcome))
        /\ mishap' = [mishap EXCEPT ![x] =
                        IF outcome = "some" THEN @ ELSE "ask_" \o outcome]
    /\ UNCHANGED notPlacement
    /\ UNCHANGED <<scheduled, failed, cospaces, worker, terminated,
                   nextId, query>>

\* HostedCospaces::insert_cospace, the insert into cospaces
InsertCospaceInsert(x) ==
    /\ task[x].pc = "insert_cospace"
    /\ hc_insert_cospace_insert(x)
    /\ SetPc(x, "insert_remove")
    /\ UNCHANGED notPlacement
    /\ UNCHANGED <<scheduled, failed, worker, mishap, terminated,
                   nextId, query>>

\* HostedCospaces::insert_cospace, the remove from scheduled
InsertCospaceRemove(x) ==
    /\ task[x].pc = "insert_remove"
    /\ hc_insert_cospace_remove(x)
    /\ SetPc(x, "done")
    /\ UNCHANGED notPlacement
    /\ UNCHANGED <<failed, cospaces, worker, mishap, terminated,
                   nextId, query>>

\* One step of the placement task of cospace x.
TaskStep(x) ==
    \/ SpawnWorkerNode(x)
    \/ GetRemoteAddr(x)
    \/ ShutdownWorkerNode(x)
    \/ FailedRemove(x)
    \/ FailedInsert(x)
    \/ AskCreateCospaceActor(x)
    \/ InsertCospaceInsert(x)
    \/ InsertCospaceRemove(x)

\* CospaceManager::_terminate_cospace: only removes the entry from cospaces.
terminate_cospace(x) ==
    /\ x <= nextId
    /\ is_hosted(x)
    /\ hc_remove_cospace(x)
    /\ terminated' = [terminated EXCEPT ![x] = TRUE]
    /\ UNCHANGED notPlacement
    /\ UNCHANGED <<scheduled, failed, task, worker, mishap, nextId,
                   query>>

(***************************************************************************)
(* realtime_status: three separate reads of the registry.                  *)
(***************************************************************************)
StatusBegin(x) ==
    /\ query.pc = "idle"
    /\ query' = [id |-> x, pc |-> "is_hosted", status |-> "NONE",
                 live |-> x <= nextId /\ ~terminated[x],
                 last |-> query.last]
    /\ UNCHANGED notPlacement
    /\ UNCHANGED <<scheduled, failed, cospaces, task, worker, mishap,
                   terminated, nextId>>

Answer(s) ==
    query' = [query EXCEPT !.pc = "idle", !.status = s, !.last[query.id] = s]

StatusIsHosted ==
    /\ query.pc = "is_hosted"
    /\ IF is_hosted(query.id)
       THEN Answer("HOSTED")
       ELSE query' = [query EXCEPT !.pc = "is_scheduled"]
    /\ UNCHANGED notPlacement
    /\ UNCHANGED <<scheduled, failed, cospaces, task, worker, mishap,
                   terminated, nextId>>

StatusIsScheduled ==
    /\ query.pc = "is_scheduled"
    /\ IF is_scheduled(query.id)
       THEN Answer("SCHEDULED")
       ELSE query' = [query EXCEPT !.pc = "is_failed"]
    /\ UNCHANGED notPlacement
    /\ UNCHANGED <<scheduled, failed, cospaces, task, worker, mishap,
                   terminated, nextId>>

StatusIsFailed ==
    /\ query.pc = "is_failed"
    /\ Answer(IF is_failed(query.id) THEN "FAILED" ELSE "NOT_FOUND")
    /\ UNCHANGED notPlacement
    /\ UNCHANGED <<scheduled, failed, cospaces, task, worker, mishap,
                   terminated, nextId>>

StatusStep == StatusIsHosted \/ StatusIsScheduled \/ StatusIsFailed

(***************************************************************************)
(* The frame codec (fasttravel-rt-proto/src/helpers.rs).                   *)
(*                                                                         *)
(* Bytes are modelled as the sequence of protobuf fields they hold.  A     *)
(* service message (realtime::connection::Message, realtime::core::Message *)
(* ...) has one oneof field "payload"; the envelope RealtimeMessage has an *)
(* optional "header" message {request_id, response_id} and a oneof "body"  *)
(* with one variant per service.  Decoding follows prost: an absent        *)
(* message field decodes to None, a zero scalar is not written, fields of  *)
(* an unknown number are skipped, the last value of a field wins, and      *)
(* malformed bytes are an error.                                           *)
(***************************************************************************)
MaxId == 2

MaxVariant == 2

MaxPayloadFields == 2

\* enum RealtimeService
RealtimeService ==
    {"Undefined", "Connection", "Core", "Presence", "Activity", "Model"}

\* the variants of realtime_message::Body
BodyServices == RealtimeService \ {"Undefined"}

RequestIds == 0..MaxId

SeqsUpTo(S, n) == UNION {[1..k -> S] : k \in 0..n}

\* The fields a service message's bytes may hold.
SvcField(t, n) == [tag |-> t, num |-> n]

SvcFields ==
    {SvcField("payload", v) : v \in 1..MaxVariant}
        \cup {SvcField("unknown", 0), SvcField("bad", 0)}

\* ProtoBytes of a service payload
Payloads == SeqsUpTo(SvcFields, MaxPayloadFields)

RECURSIVE LastPayload(_)
LastPayload(bytes) ==
    IF bytes = <<>> THEN 0
    ELSE IF bytes[Len(bytes)].tag = "payload" THEN bytes[Len(bytes)].num
    ELSE LastPayload(SubSeq(bytes, 1, Len(bytes) - 1))

\* prost::Message::decode for a service message: Result<Message, DecodeError>
DecodeSvc(bytes) ==
    IF \E k \in 1..Len(bytes) : bytes[k].tag = "bad"
    THEN [ok |-> FALSE, payload |-> 0]
    ELSE [ok |-> TRUE, payload |-> LastPayload(bytes)]

\* prost::Message::encode_to_vec for a service message
EncodeSvc(payload) ==
    IF payload = 0 THEN <<>> ELSE <<SvcField("payload", payload)>>

\* The fields of realtime_message::Header and of RealtimeMessage.
HdrField(t, n) == [tag |-> t, num |-> n]

EnvField(t, s, h, b) == [tag |-> t, svc |-> s, hdr |-> h, sub |-> b]

HeaderField(h) == EnvField("header", "Undefined", h, <<>>)

BodyField(s, b) == EnvField("body", s, <<>>, b)

JunkFields ==
    {EnvField("unknown", "Undefined", <<>>, <<>>),
     EnvField("bad", "Undefined", <<>>, <<>>)}

\* encode_to_vec of a Header: a zero id is not written.
EncodeHeader(request_id, response_id) ==
    (IF request_id # 0 THEN <<HdrField("request_id", request_id)>> ELSE <<>>)
        \o (IF response_id # 0 THEN <<HdrField("response_id", response_id)>>
            ELSE <<>>)

RECURSIVE LastOf(_, _)
LastOf(hdr, t) ==
    IF hdr = <<>> THEN 0
    ELSE IF hdr[Len(hdr)].tag = t THEN hdr[Len(hdr)].num
    ELSE LastOf(SubSeq(hdr, 1, Len(hdr) - 1), t)

\* The decoded envelope: RealtimeMessage { header: Option<Header>,
\* body: Option<Body> }.
NoHeader == [some |-> FALSE, request_id |-> 0, response_id |-> 0]

SomeHeader(rq, rs) == [some |-> TRUE, request_id |-> rq, response_id |-> rs]

NoBody == [some |-> FALSE, service |-> "Undefined", payload |-> 0]

SomeBody(s, v) == [some |-> TRUE, service |-> s, payload |-> v]

RtMessage(h, b) == [header |-> h, body |-> b]

\* RealtimeMessage::default()
DefaultRtMessage == RtMessage(NoHeader, NoBody)

RECURSIVE MergeRt(_, _)
\* prost's merge of the fields of an envelope, first to last, into msg.
MergeRt(msg, bytes) ==
    IF bytes = <<>> THEN msg
    ELSE LET f == Head(bytes) IN
         MergeRt(
            CASE f.tag = "header" ->
                    [msg EXCEPT !.header =
                        SomeHeader(
                            IF \E k \in 1..Len(f.hdr) : f.hdr[k].tag = "request_id"
                                THEN LastOf(f.hdr, "request_id")
                                ELSE msg.header.request_id,
                            IF \E k \in 1..Len(f.hdr) : f.hdr[k].tag = "response_id"
                                THEN LastOf(f.hdr, "response_id")
                                ELSE msg.header.response_id)]
              [] f.tag = "body" ->
                    [msg EXCEPT !.body =
                        SomeBody(f.svc,
                            IF /\ msg.body.some
                               /\ msg.body.service = f.svc
                               /\ DecodeSvc(f.sub).payload = 0
                            THEN msg.body.payload
                            ELSE DecodeSvc(f.sub).payload)]
              [] OTHER -> msg,
            Tail(bytes))

\* realtime::RealtimeMessage::decode: Result<RealtimeMessage, DecodeError>
DecodeRt(bytes) ==
    IF \E k \in 1..Len(bytes) :
            \/ bytes[k].tag = "bad"
            \/ bytes[k].tag = "body" /\ ~DecodeSvc(bytes[k].sub).ok
    THEN [ok |-> FALSE, msg |-> DefaultRtMessage]
    ELSE [ok |-> TRUE, msg |-> MergeRt(DefaultRtMessage, bytes)]

\* RealtimeMessage::encode_to_vec
EncodeRt(msg) ==
    (IF msg.header.some
        THEN <<HeaderField(EncodeHeader(msg.header.request_id,
                                        msg.header.response_id))>>
        ELSE <<>>)
    \o (IF msg.body.some
        THEN <<BodyField(msg.body.service, EncodeSvc(msg.body.payload))>>
        ELSE <<>>)

\* enum ProtoMessage, with its payload structs
Undefined == [type |-> "Undefined", id |-> 0, service |-> "Undefined", bytes |-> <<>>]

Tell(s, b) == [type |-> "Tell", id |-> 0, service |-> s, bytes |-> b]

Request(i, s, b) == [type |-> "Request", id |-> i, service |-> s, bytes |-> b]

Response(i, s, b) == [type |-> "Response", id |-> i, service |-> s, bytes |-> b]

\* Option<ProtoBytes>
NoBytes == [some |-> FALSE, bytes |-> <<>>]

SomeBytes(b) == [some |-> TRUE, bytes |-> b]

\* create_rt_message_from_service_payload: Option<RealtimeMessage>; only the
\* Connection and Core payloads are decoded, the header is left None.
create_rt_message_from_service_payload(service, payload) ==
    IF service \in {"Connection", "Core"} /\ DecodeSvc(payload).ok
    THEN [some |-> TRUE,
          msg |-> RtMessage(NoHeader, SomeBody(service, DecodeSvc(payload).payload))]
    ELSE [some |-> FALSE, msg |-> DefaultRtMessage]

create_tell_message_from_service_payload(service, payload) ==
    LET rt == create_rt_message_from_service_payload(service, payload) IN
    IF rt.some THEN SomeBytes(EncodeRt(rt.msg)) ELSE NoBytes

\* a response whose header carries the id as request_id
create_response_message_ids_swapped(response_id, service, payload) ==
    LET rt == create_rt_message_from_service_payload(service, payload) IN
    IF rt.some
    THEN SomeBytes(EncodeRt([rt.msg EXCEPT !.header = SomeHeader(response_id, 0)]))
    ELSE NoBytes

create_response_message_from_service_payload(response_id, service, payload) ==
    LET rt == create_rt_message_from_service_payload(service, payload) IN
    IF rt.some
    THEN SomeBytes(EncodeRt([rt.msg EXCEPT !.header = SomeHeader(0, response_id)]))
    ELSE NoBytes

create_request_message_from_service_payload(request_id, service, payload) ==
    LET rt == create_rt_message_from_service_payload(service, payload) IN
    IF rt.some
    THEN SomeBytes(EncodeRt([rt.msg EXCEPT !.header = SomeHeader(request_id, 0)]))
    ELSE NoBytes

\* extract_service_payload_from_rt_message: the service of the body variant
\* and the re-encoded service message.
extract_service_payload_from_rt_message(body) ==
    [service |-> body.service, bytes |-> EncodeSvc(body.payload)]

\* process_header_and_message without the test of both ids
process_header_and_message_unchecked(rt_msg) ==
    IF ~rt_msg.header.some \/ ~rt_msg.body.some THEN Undefined
    ELSE LET p == extract_service_payload_from_rt_message(rt_msg.body) IN
         IF rt_msg.header.request_id # 0
            THEN Request(rt_msg.header.request_id, p.service, p.bytes)
         ELSE IF rt_msg.header.response_id # 0
            THEN Response(rt_msg.header.response_id, p.service, p.bytes)
         ELSE Tell(p.service, p.bytes)

process_header_and_message(rt_msg) ==
    IF ~rt_msg.header.some \/ ~rt_msg.body.some THEN Undefined
    ELSE IF rt_msg.header.request_id # 0 /\ rt_msg.header.response_id # 0
        THEN Undefined
    ELSE LET p == extract_service_payload_from_rt_message(rt_msg.body) IN
         IF rt_msg.header.request_id # 0
            THEN Request(rt_msg.header.request_id, p.service, p.bytes)
         ELSE IF rt_msg.header.response_id # 0
            THEN Response(rt_msg.header.response_id, p.service, p.bytes)
         ELSE Tell(p.service, p.bytes)

process_realtime_message(bytes) ==
    LET d == DecodeRt(bytes) IN
    IF d.ok THEN process_header_and_message(d.msg) ELSE Undefined

(***************************************************************************)
(* The codec applied to bounded inputs: a frame is built by one of the     *)
(* create_* functions, or arrives from the peer, and is then processed.    *)
(***************************************************************************)
\* The header bytes a peer may send: each id field at most once.
HeaderBytes ==
    {<<>>}
        \cup {<<HdrField(t, i)>> : t \in {"request_id", "response_id"}, i \in RequestIds}
        \cup {<<HdrField("request_id", i), HdrField("response_id", j)>> :
                i \in RequestIds, j \in RequestIds}
        \cup {<<HdrField("response_id", j), HdrField("request_id", i)>> :
                i \in RequestIds, j \in RequestIds}

\* The frames a peer may send: at most one header and one body field, in
\* either order, with or without an unknown or malformed field.
Frames ==
    LET H == {<<>>} \cup {<<HeaderField(h)>> : h \in HeaderBytes}
        B == {<<>>} \cup {<<BodyField(s, b)>> : s \in BodyServices, b \in Payloads}
        J == {<<>>} \cup {<<j>> : j \in JunkFields}
    IN  {h \o b \o j : h \in H, b \in B, j \in J}
            \cup {b \o h \o j : h \in H, b \in B, j \in J}

NoCall == [op |-> "none", service |-> "Undefined", id |-> 0, payload |-> <<>>]

Pending == [type |-> "Pending", id |-> 0, service |-> "Undefined", bytes |-> <<>>]

InitCodec ==
    /\ cin = NoCall
    /\ wire = NoBytes
    /\ cout = Pending

MakeTell ==
    /\ cin = NoCall
    /\ UNCHANGED notCodec
    /\ \E s \in RealtimeService, p \in Payloads :
        /\ cin' = [op |-> "tell", service |-> s, id |-> 0, payload |-> p]
        /\ wire' = create_tell_message_from_service_payload(s, p)
    /\ cout' = Pending

MakeRequest ==
    /\ cin = NoCall
    /\ UNCHANGED notCodec
    /\ \E i \in RequestIds, s \in RealtimeService, p \in Payloads :
        /\ cin' = [op |-> "request", service |-> s, id |-> i, payload |-> p]
        /\ wire' = create_request_message_from_service_payload(i, s, p)
    /\ cout' = Pending

MakeResponse ==
    /\ cin = NoCall
    /\ UNCHANGED notCodec
    /\ \E i \in RequestIds, s \in RealtimeService, p \in Payloads :
        /\ cin' = [op |-> "response", service |-> s, id |-> i, payload |-> p]
        /\ wire' = create_response_message_from_service_payload(i, s, p)
    /\ cout' = Pending

PeerFrame ==
    /\ cin = NoCall
    /\ UNCHANGED notCodec
    /\ \E f \in Frames :
        /\ cin' = [op |-> "peer", service |-> "Undefined", id |-> 0, payload |-> <<>>]
        /\ wire' = SomeBytes(f)
    /\ cout' = Pending

Process ==
    /\ cin # NoCall
    /\ UNCHANGED notCodec
    /\ wire.some
    /\ cout = Pending
    /\ cout' = process_realtime_message(wire.bytes)
    /\ UNCHANGED <<cin, wire>>

\* The next call: the frame was processed, or no frame was built.
CodecReset ==
    /\ cin # NoCall
    /\ UNCHANGED notCodec
    /\ cout # Pending \/ ~wire.some
    /\ cin' = NoCall
    /\ wire' = NoBytes
    /\ cout' = Pending

CodecStep ==
    \/ MakeTell
    \/ MakeRequest
    \/ MakeResponse
    \/ PeerFrame
    \/ Process
    \/ CodecReset

(***************************************************************************)
(* The promise tables: the server endpoint (ClientConnectionActor) sends   *)
(* the Asks of the services to the client and the client broker            *)
(* (RealtimeMessageBroker) sends the requests of the SDK to the server.    *)
(* Each numbers its requests with its own u32 counter and keeps one        *)
(* promise per request that was sent.                                      *)
(***************************************************************************)
\* Asks of services against the one endpoint
MaxAsks == 2

\* calls of send_proto_request_to_server against the one broker
MaxCalls == 2

\* frames a client sends to the one endpoint
MaxFrames == 2

\* tells of services to the one endpoint
MaxTells == 1

Callers == 1..MaxCalls

\* The services that send requests, one that the codec encodes and one that
\* it does not, and the payloads they send.
AskServices == {"Core", "Presence"}

AskPayloads == {EncodeSvc(v) : v \in 0..1}

\* A ticket is a JWT: whether its ES256 signature verifies under the key of
\* the server, its sub and aud claims, and whether its exp claim has passed
\* (as the validation of the library judges it).
Ticket(signed, sub, aud, expired) ==
    [signed |-> signed, sub |-> sub, aud |-> aud, expired |-> expired]

\* The tickets a client may present: a good message ticket, a good query
\* ticket, one for another subject, an expired message ticket, a forged
\* message ticket and an expired query ticket.  Ticket 0 is a string that
\* is not a JWT (the empty string).
Tickets ==
    <<Ticket(TRUE, "sdk", "message", FALSE),
      Ticket(TRUE, "sdk", "query", FALSE),
      Ticket(TRUE, "other", "message", FALSE),
      Ticket(TRUE, "sdk", "message", TRUE),
      Ticket(FALSE, "sdk", "message", FALSE),
      Ticket(TRUE, "sdk", "query", TRUE)>>

TicketIds == 0..Len(Tickets)

\* jsonwebtoken::decode(ticket, key, validation).is_ok(), for a validation
\* with sub = "sdk" and the given audience.
jwt_decode_ok(t, aud) ==
    /\ t \in DOMAIN Tickets
    /\ Tickets[t].signed
    /\ ~Tickets[t].expired
    /\ Tickets[t].sub = "sdk"
    /\ Tickets[t].aud = aud

\* The variants of connection::message::Payload, as the number of the payload
\* field of a connection::Message: HandshakeReq { ticket } and
\* HandshakeRes { success }.  The oneof is written also when success is false.
HandshakeReq(t) == 10 + t

HandshakeRes(success) == IF success THEN 21 ELSE 20

IsHandshakeReq(v) == \E t \in TicketIds : v = HandshakeReq(t)

\* create_ticket_handshake_request
create_ticket_handshake_request(t) == EncodeSvc(HandshakeReq(t))

\* create_ticket_handshake_response
create_ticket_handshake_response(success) == EncodeSvc(HandshakeRes(success))

\* decode_connection_message_and_extract_payload: Option<Payload>, None on a
\* decode error and for a message without payload.
decode_connection_message_and_extract_payload(bytes) ==
    IF DecodeSvc(bytes).ok /\ DecodeSvc(bytes).payload # 0
    THEN [some |-> TRUE, payload |-> DecodeSvc(bytes).payload]
    ELSE [some |-> FALSE, payload |-> 0]

\* a handshake that answers only a ticket it accepts
handle_handshake_request_silent(t) ==
    IF jwt_decode_ok(t, "message")
    THEN SomeBytes(create_ticket_handshake_response(TRUE))
    ELSE NoBytes

\* ClientConnectionServiceActor::handle_handshake_request
handle_handshake_request(t) ==
    SomeBytes(create_ticket_handshake_response(jwt_decode_ok(t, "message")))

\* a connection service that refuses every handshake after the first
conn_service_handle_once(bytes) ==
    LET p == decode_connection_message_and_extract_payload(bytes) IN
    IF p.some /\ IsHandshakeReq(p.payload)
    THEN IF \E d \in ep.done : d.service = "Connection"
         THEN SomeBytes(create_ticket_handshake_response(FALSE))
         ELSE handle_handshake_request(p.payload - HandshakeReq(0))
    ELSE NoBytes

\* ClientConnectionServiceActor, handle of a ClientMessage with a Binary
\* payload: a handshake request is answered, anything else gets None.
conn_service_handle(bytes) ==
    LET p == decode_connection_message_and_extract_payload(bytes) IN
    IF p.some /\ IsHandshakeReq(p.payload)
    THEN handle_handshake_request(p.payload - HandshakeReq(0))
    ELSE NoBytes

\* ClientConnectionActor::new and RealtimeMessageBroker::new
InitPromise ==
    /\ ep = [request_id_counter |-> 0, service_promises |-> {}, ids |-> <<>>,
             feeder_open |-> TRUE, asked |-> {}, answered |-> {},
             frames |-> 0, to_cospace |-> <<>>, done |-> {}, replied |-> {},
             told |-> {}, handled |-> <<>>, msgs |-> {}, completed |-> {},
             asks |-> <<>>]
    /\ br = [request_id_counter |-> 0, borrowed |-> FALSE,
             service_promises |-> {}, ids |-> <<>>, connection |-> FALSE]
    /\ caller = [c \in Callers |-> [pc |-> "idle", id |-> 0, result |-> <<>>]]
    /\ s2c = <<>>
    /\ c2s = <<>>

\* ---- the server endpoint ----
\* recv_req_from_service: the id of the request is the counter as it stands
ep_request_id(counter) == counter

\* the counter that is never advanced
ep_counter_stuck(counter) == counter

\* recv_req_from_service: self.request_id_counter += 1 (a u32; MaxAsks keeps
\* it far from the end of its range)
ep_counter_after(counter) == counter + 1

\* What is kept of an ask of a service: its payload, the id it was given,
\* whether its frame was handed to the socket feeder, and whether the
\* service got the future of a promise (Some) or None.
AskRecord(binary, id, enqueued, some) ==
    [binary |-> binary, id |-> id, enqueued |-> enqueued, some |-> some]

\* the promise that is stored whether or not the frame was sent
promises_after_unsent(promises, request_id, sent) == promises \cup {request_id}

\* recv_req_from_service: the promise is inserted in the branch where
\* socket_tx_feeder.send returned Ok
promises_after(promises, request_id, sent) ==
    IF sent THEN promises \cup {request_id} ELSE promises

\* A service asks the client.  A Text payload is refused before the counter
\* is touched.  For a Binary payload the id is taken and the counter
\* advanced; the promise is kept, and its future returned, only if the
\* frame was built and handed to the socket feeder.
recv_req_from_service ==
    /\ Len(ep.asks) < MaxAsks
    /\ UNCHANGED notPromise
    /\ \/ /\ ep' = [ep EXCEPT
                        !.asks = Append(@, AskRecord(FALSE, 0, FALSE, FALSE))]
          /\ s2c' = s2c
       \/ \E sender \in AskServices, proto_bytes \in AskPayloads :
            LET request_id == ep_request_id(ep.request_id_counter)
                proto_msg == create_request_message_from_service_payload(
                                request_id, sender, proto_bytes)
                sent == proto_msg.some /\ ep.feeder_open
            IN  /\ ep' = [ep EXCEPT
                            !.request_id_counter = ep_counter_after(@),
                            !.ids = Append(@, request_id),
                            !.service_promises =
                                promises_after(@, request_id, sent),
                            !.asks = Append(@,
                                AskRecord(TRUE, request_id, sent, sent))]
                /\ s2c' = IF sent THEN Append(s2c, proto_msg.bytes) ELSE s2c
    /\ UNCHANGED <<br, caller, c2s>>

\* The receiving half of the socket feeder is dropped: every later send
\* on socket_tx_feeder fails.
FeederClosed ==
    /\ ep.feeder_open
    /\ UNCHANGED notPromise
    /\ ep' = [ep EXCEPT !.feeder_open = FALSE]
    /\ UNCHANGED <<br, caller, s2c, c2s>>

\* What is kept of a frame that was handled: its kind, id and service.
Summary(m) == [type |-> m.type, id |-> m.id, service |-> m.service]

\* The ClientMessage of frame seq: where it is sent, its route and the
\* service of the route.  Its client is always the ClientId of the endpoint.
ClientMessage(seq, route, service) ==
    [seq |-> seq, route |-> route, service |-> service,
     to |-> IF service = "Connection" THEN "connection" ELSE "cospace"]

\* a tell that always goes to the cospace
recv_proto_tell_from_client_cospace(payload, seq) ==
    ep' = [ep EXCEPT
            !.frames = seq,
            !.handled = Append(@, Summary(payload)),
            !.msgs = @ \cup {[ClientMessage(seq, "Tell", payload.service)
                                EXCEPT !.to = "cospace"]},
            !.to_cospace = Append(@, seq)]

\* recv_proto_tell_from_client: the ClientMessage is sent at once, to the
\* connection service for a Connection payload and to the cospace otherwise.
recv_proto_tell_from_client(payload, seq) ==
    ep' = [ep EXCEPT
            !.frames = seq,
            !.handled = Append(@, Summary(payload)),
            !.msgs = @ \cup {ClientMessage(seq, "Tell", payload.service)},
            !.to_cospace = IF payload.service = "Connection" THEN @
                           ELSE Append(@, seq)]

\* recv_proto_req_from_client: the ClientMessage is moved into a task that
\* is spawned on the executor; the task asks the service when it first runs.
recv_proto_req_from_client(payload, seq) ==
    ep' = [ep EXCEPT
            !.frames = seq,
            !.handled = Append(@, Summary(payload)),
            !.asked = @ \cup {[seq |-> seq, id |-> payload.id,
                               service |-> payload.service,
                               bytes |-> payload.bytes, sent |-> FALSE]}]

\* the oldest promise, when there is none under the id
promise_of_any(promises, id) ==
    IF id \in promises \/ promises = {} THEN promises \cap {id}
    ELSE {CHOOSE i \in promises : \A j \in promises : i <= j}

\* self.service_promises.remove(&payload.response_id): the promise under the
\* id, if there is one
promise_of(promises, id) == promises \cap {id}

\* a response that completes the promise and leaves it in the table
recv_proto_res_from_client_kept(payload, seq) ==
    ep' = [ep EXCEPT
            !.frames = seq,
            !.handled = Append(@, Summary(payload)),
            !.completed = @ \cup {[id |-> i, bytes |-> payload.bytes, seq |-> seq] :
                                    i \in promise_of(ep.service_promises, payload.id)}]

\* recv_proto_res_from_client: the promise of the response id is removed and
\* completed with the bytes of the response, if there is one
recv_proto_res_from_client(payload, seq) ==
    ep' = [ep EXCEPT
            !.frames = seq,
            !.handled = Append(@, Summary(payload)),
            !.service_promises = @ \ promise_of(ep.service_promises, payload.id),
            !.completed = @ \cup {[id |-> i, bytes |-> payload.bytes, seq |-> seq] :
                                    i \in promise_of(ep.service_promises, payload.id)}]

\* get_server_service_from_realtime_service: the four services of the
\* cospace, and Logging for every other value
get_server_service_from_realtime_service(proto_service) ==
    IF proto_service \in {"Core", "Activity", "Presence", "Model"}
    THEN proto_service
    ELSE "Logging"

\* ServicePoolMessenger<ClientMessage>::message_addr: Some for the four
\* pools, None otherwise
message_addr(service) ==
    [some |-> service \in {"Core", "Presence", "Activity", "Model"},
     pool |-> service]

\* handle(ClientMessage) of the CospaceActor for a message of the endpoint:
\* a Tell is told to the pool of its service, and ServicePool.tell unwraps
\* the address; an Ask is passed to the pool if there is one and is
\* answered None otherwise.
cospace_handle_client_message(m) ==
    LET addr == message_addr(get_server_service_from_realtime_service(m.service))
    IN  IF m.route = "Tell"
        THEN IF addr.some THEN "told" ELSE "panic"
        ELSE IF addr.some THEN "asked" ELSE "none"

\* the newest frame is taken first
socket_rx_newest(q) == [msg |-> q[Len(q)], rest |-> SubSeq(q, 1, Len(q) - 1)]

\* fut_socket_rx: socket_rx.next() gives the frames in the order of the
\* socket and tells each to the endpoint, which handles its mailbox in order.
socket_rx_next(q) == [msg |-> Head(q), rest |-> Tail(q)]

\* recv_proto_msg_from_client: the next frame of the client is processed
recv_proto_msg_from_client ==
    /\ c2s # <<>>
    /\ UNCHANGED notPromise
    /\ LET proto_msg == process_realtime_message(socket_rx_next(c2s).msg)
           seq == ep.frames + 1
       IN  CASE proto_msg.type = "Request" -> recv_proto_req_from_client(proto_msg, seq)
             [] proto_msg.type = "Response" -> recv_proto_res_from_client(proto_msg, seq)
             [] proto_msg.type = "Tell" -> recv_proto_tell_from_client(proto_msg, seq)
             [] OTHER -> ep' = [ep EXCEPT !.frames = seq,
                                          !.handled = Append(@, Summary(proto_msg))]
    /\ c2s' = socket_rx_next(c2s).rest
    /\ UNCHANGED <<br, caller, s2c>>

\* The task of recv_proto_req_from_client runs for the first time: its ask
\* puts the ClientMessage in the mailbox of the connection service or of
\* the cospace.
AskRuns ==
    /\ UNCHANGED notPromise
    /\ \E r \in ep.asked :
        /\ ~r.sent
        /\ ep' = [ep EXCEPT
                    !.asked = (@ \ {r}) \cup {[r EXCEPT !.sent = TRUE]},
                    !.msgs = @ \cup {ClientMessage(r.seq, "Ask", r.service)},
                    !.to_cospace = IF r.service = "Connection" THEN @
                                   ELSE Append(@, r.seq)]
    /\ UNCHANGED <<br, caller, s2c, c2s>>

\* a task that sends an empty Response when the ask gave nothing
response_task_error_frame(r, response) ==
    LET res_msg == create_response_message_from_service_payload(
                        r.id, r.service,
                        IF response.some THEN response.bytes ELSE <<>>)
        sent == res_msg.some /\ ep.feeder_open
    IN  /\ ep' = [ep EXCEPT
                    !.asked = @ \ {r},
                    !.done = @ \cup {[seq |-> r.seq, id |-> r.id,
                                      service |-> r.service, bytes |-> r.bytes,
                                      served |-> response.some]},
                    !.replied = IF sent /\ response.some
                                THEN @ \cup {[seq |-> r.seq, frame |-> res_msg.bytes]}
                                ELSE @]
        /\ s2c' = IF sent THEN Append(s2c, res_msg.bytes) ELSE s2c

\* The rest of the task, once the ask is answered with response (an
\* Option<Vec<u8>>): bytes are framed as a Response with the id of the
\* request and handed to the socket feeder; None, or a frame that could not
\* be built, sends nothing.
response_task(r, response) ==
    LET res_msg == IF response.some
                   THEN create_response_message_from_service_payload(
                            r.id, r.service, response.bytes)
                   ELSE NoBytes
        sent == res_msg.some /\ ep.feeder_open
    IN  /\ ep' = [ep EXCEPT
                    !.asked = @ \ {r},
                    !.answered = IF sent
                                 THEN @ \cup {[id |-> r.id, bytes |-> response.bytes]}
                                 ELSE @,
                    !.done = @ \cup {[seq |-> r.seq, id |-> r.id,
                                      service |-> r.service, bytes |-> r.bytes,
                                      served |-> response.some]},
                    !.replied = IF sent
                                THEN @ \cup {[seq |-> r.seq, frame |-> res_msg.bytes]}
                                ELSE @]
        /\ s2c' = IF sent THEN Append(s2c, res_msg.bytes) ELSE s2c

\* The cospace passes the ask to the service, which answers with bytes or
\* with an error; without a service of that kind the answer is None.
ServiceAnswers ==
    /\ UNCHANGED notPromise
    /\ \E r \in ep.asked, some \in BOOLEAN, response_bytes \in AskPayloads :
        /\ r.sent
        /\ r.service # "Connection"
        /\ response_task(r, IF some THEN SomeBytes(response_bytes) ELSE NoBytes)
    /\ UNCHANGED <<br, caller, c2s>>

\* The connection service answers the ask.
ConnServiceAnswers ==
    /\ UNCHANGED notPromise
    /\ \E r \in ep.asked :
        /\ r.sent
        /\ r.service = "Connection"
        /\ response_task(r, conn_service_handle(r.bytes))
    /\ UNCHANGED <<br, caller, c2s>>

\* recv_tell_from_service: the Binary payload of a ServiceMessage with route
\* Tell is handed to the socket feeder as it is.
recv_tell_from_service ==
    /\ Cardinality(ep.told) < MaxTells
    /\ UNCHANGED notPromise
    /\ \E sender \in AskServices, payload \in AskPayloads :
        /\ ep' = [ep EXCEPT
                    !.told = IF ep.feeder_open
                             THEN @ \cup {[n |-> Cardinality(@) + 1,
                                           service |-> sender, bytes |-> payload,
                                           frame |-> payload]}
                             ELSE @]
        /\ s2c' = IF ep.feeder_open THEN Append(s2c, payload) ELSE s2c
    /\ UNCHANGED <<br, caller, c2s>>

\* The frames a client puts on the socket: requests to the connection
\* service and to the services of the cospace, and tells.
ClientFrames ==
    {EncodeRt(RtMessage(SomeHeader(id, 0), SomeBody("Connection", HandshakeReq(t)))) :
        id \in 1..MaxId, t \in TicketIds}
    \cup {EncodeRt(RtMessage(SomeHeader(id, 0), SomeBody(s, v))) :
        id \in 1..MaxId, s \in AskServices, v \in 0..1}
    \cup {EncodeRt(RtMessage(SomeHeader(0, 0), SomeBody(s, v))) :
        s \in AskServices, v \in 0..1}

\* Every kind of frame a peer can put on the socket: requests, tells and
\* responses, a frame that does not decode, one without header, one
\* without body, one with both ids and one of a service the server does
\* not know (an unknown field in place of the body).
WireFrames ==
    {EncodeRt(RtMessage(SomeHeader(1, 0), SomeBody("Core", 0))),
     EncodeRt(RtMessage(SomeHeader(1, 0), SomeBody("Connection", HandshakeReq(1)))),
     EncodeRt(RtMessage(SomeHeader(0, 0), SomeBody("Core", 0))),
     EncodeRt(RtMessage(SomeHeader(0, 0), SomeBody("Connection", 0)))}
    \cup {EncodeRt(RtMessage(SomeHeader(0, id), SomeBody("Core", v))) :
            id \in 1..MaxId, v \in 0..1}
    \cup {<<EnvField("bad", "Undefined", <<>>, <<>>)>>,
          EncodeRt(RtMessage(NoHeader, SomeBody("Core", 0))),
          EncodeRt(RtMessage(SomeHeader(1, 0), NoBody)),
          EncodeRt(RtMessage(SomeHeader(1, 1), SomeBody("Core", 0))),
          <<HeaderField(EncodeHeader(1, 0)),
            EnvField("unknown", "Undefined", <<>>, <<>>)>>}

\* A peer sends any frame.
PeerSendsAny ==
    /\ ep.frames + Len(c2s) < MaxFrames
    /\ UNCHANGED notPromise
    /\ \E frame \in WireFrames : c2s' = Append(c2s, frame)
    /\ UNCHANGED <<ep, br, caller, s2c>>

\* The client answers a request of the server: a Response frame.
PeerResponds ==
    /\ ep.frames + Len(c2s) < MaxFrames
    /\ UNCHANGED notPromise
    /\ \E id \in 1..MaxId :
        c2s' = Append(c2s,
                EncodeRt(RtMessage(SomeHeader(0, id), SomeBody("Core", 1))))
    /\ UNCHANGED <<ep, br, caller, s2c>>

\* The client sends a frame.
PeerSends ==
    /\ ep.frames + Len(c2s) < MaxFrames
    /\ UNCHANGED notPromise
    /\ \E frame \in ClientFrames : c2s' = Append(c2s, frame)
    /\ UNCHANGED <<ep, br, caller, s2c>>

\* ---- the client broker ----
\* send_proto_request_to_server: next_id = *req_id_counter + 1 (a u32;
\* MaxCalls keeps it far from the end of its range)
br_next_id(counter) == counter + 1

\* RealtimeMessageBroker::set_connection: the module connects, waits for the
\* socket to open and hands the connection to the broker.
set_connection ==
    /\ ~br.connection
    /\ UNCHANGED notPromise
    /\ br' = [br EXCEPT !.connection = TRUE]
    /\ UNCHANGED <<ep, caller, s2c, c2s>>

\* A call of send_proto_request_to_server runs up to its await.  The counter
\* is borrowed mutably for the whole body: a call made while another call
\* awaits its response panics on borrow_mut.  A call whose frame was not
\* built, or whose send_with_u8_array gave an error, returns None.  (Calls
\* come after set_connection: get_connection panics by design before it.)
send_proto_request_to_server(c) ==
    /\ caller[c].pc = "idle"
    /\ br.connection
    /\ UNCHANGED notPromise
    /\ IF br.borrowed
       THEN /\ caller' = [caller EXCEPT ![c].pc = "panicked"]
            /\ UNCHANGED <<br, c2s>>
       ELSE \E service \in AskServices, payload \in AskPayloads, send_ok \in BOOLEAN :
            LET next_id == br_next_id(br.request_id_counter)
                rt_msg == create_request_message_from_service_payload(
                            next_id, service, payload)
                sent == rt_msg.some /\ send_ok
            IN  /\ br' = [br EXCEPT
                            !.request_id_counter = next_id,
                            !.ids = Append(@, next_id),
                            !.borrowed = sent,
                            !.service_promises =
                                IF sent THEN @ \cup {next_id} ELSE @]
                /\ caller' = [caller EXCEPT
                                ![c].pc = IF sent THEN "awaiting" ELSE "none",
                                ![c].id = next_id]
                /\ c2s' = IF sent THEN Append(c2s, rt_msg.bytes) ELSE c2s
    /\ UNCHANGED <<ep, s2c>>

\* recv_proto_res_from_server: the promise of the response id is removed and
\* completed with the bytes of the response, if there is one.
recv_proto_res_from_server(payload) ==
    IF payload.id \in br.service_promises
    THEN /\ br' = [br EXCEPT !.service_promises = @ \ {payload.id}]
         /\ caller' = [c \in Callers |->
                        IF caller[c].pc = "awaiting" /\ caller[c].id = payload.id
                        THEN [caller[c] EXCEPT !.pc = "completed",
                                               !.result = payload.bytes]
                        ELSE caller[c]]
    ELSE UNCHANGED <<br, caller>>

\* recv_msg_from_server: the next frame of the server is processed.  A Tell
\* goes to the kernel of its service; a Request is answered by the kernel,
\* and both kernels answer None, so that no Response is sent.
recv_msg_from_server ==
    /\ s2c # <<>>
    /\ UNCHANGED notPromise
    /\ LET proto_msg == process_realtime_message(Head(s2c)) IN
        CASE proto_msg.type = "Response" -> recv_proto_res_from_server(proto_msg)
          [] OTHER -> UNCHANGED <<br, caller>>
    /\ s2c' = Tail(s2c)
    /\ UNCHANGED <<ep, c2s>>

\* The future of a completed call is polled again and returns the bytes:
\* the borrow of the counter ends.
Resume(c) ==
    /\ caller[c].pc = "completed"
    /\ UNCHANGED notPromise
    /\ caller' = [caller EXCEPT ![c].pc = "resolved"]
    /\ br' = [br EXCEPT !.borrowed = FALSE]
    /\ UNCHANGED <<ep, s2c, c2s>>

PromiseStep ==
    \/ recv_req_from_service
    \/ FeederClosed
    \/ recv_proto_msg_from_client
    \/ AskRuns
    \/ ServiceAnswers
    \/ set_connection
    \/ \E c \in Callers : send_proto_request_to_server(c)
    \/ recv_msg_from_server
    \/ \E c \in Callers : Resume(c)

\* The endpoint with a client that sends any frames.
EndpointStep ==
    \/ PeerSends
    \/ recv_proto_msg_from_client
    \/ AskRuns
    \/ ServiceAnswers
    \/ ConnServiceAnswers
    \/ recv_tell_from_service

\* Both directions of one socket: the endpoint with the asks of the
\* services, and a client that calls the broker and also answers the
\* requests of the server.
DuplexStep ==
    \/ PeerResponds
    \/ recv_req_from_service
    \/ recv_proto_msg_from_client
    \/ AskRuns
    \/ ServiceAnswers
    \/ set_connection
    \/ \E c \in Callers : send_proto_request_to_server(c)
    \/ recv_msg_from_server

\* The asks of the services on a socket that may close, and a peer that
\* sends any frames.
AskStep ==
    \/ PeerSendsAny
    \/ recv_req_from_service
    \/ FeederClosed
    \/ recv_proto_msg_from_client

\* The endpoint between the asks of the services and a peer that sends any
\* frames.
SocketStep ==
    \/ PeerSendsAny
    \/ recv_req_from_service
    \/ recv_proto_msg_from_client
    \/ AskRuns
    \/ ServiceAnswers
    \/ ConnServiceAnswers

(***************************************************************************)
(* The websocket route: realtime_connect checks the ticket of the query    *)
(* and reads the hosted map once.                                          *)
(***************************************************************************)
\* a connect request without a ticket parameter
NoTicket == 0 - 1

InitConnect ==
    connect = [id |-> 0, ticket |-> NoTicket, response |-> "none",
               hosted |-> FALSE, scheduled |-> FALSE, failed |-> FALSE]

\* check_connect_authorization: a ticket parameter that decodes as a
\* TicketClaimsQuery
check_connect_authorization(t) == t # NoTicket /\ jwt_decode_ok(t, "query")

\* AuthError::into_response
InvalidToken == "400 Invalid token"

WrongCredentials == "401 Wrong credentials"

\* realtime_connect: Err(InvalidToken), the upgrade that tells the
\* WebsocketActor the socket and the address of the cospace, or
\* Err(WrongCredentials)
connect_response(x, t) ==
    IF ~check_connect_authorization(t) THEN InvalidToken
    ELSE IF is_hosted(x) THEN "upgrade"
    ELSE WrongCredentials

\* A connect request for cospace x (0 is an id that was never generated)
\* with ticket t.  The record keeps what the registry held at that moment.
realtime_connect(x, t) ==
    /\ connect' = [id |-> x, ticket |-> t, response |-> connect_response(x, t),
                   hosted |-> is_hosted(x), scheduled |-> is_scheduled(x),
                   failed |-> is_failed(x)]
    /\ UNCHANGED <<placementVars, codecVars, promiseVars, cospaceVars, nodeVars,
                   hostVars>>

\* The placements together with the connect requests.
ConnectStep ==
    \/ spawn_cospace_in_dedicated_node(MaxCospaces)
    \/ spawn_cospace_in_main_node(MaxCospaces)
    \/ spawn_cospace_in_shared_node(MaxCospaces)
    \/ \E x \in CospaceIds : TaskStep(x)
    \/ \E x \in CospaceIds : terminate_cospace(x)
    \/ \E x \in 0..MaxCospaces, t \in TicketIds \cup {NoTicket} : realtime_connect(x, t)

(***************************************************************************)
(* The CospaceActor: it numbers the clients, keeps the map of the          *)
(* connected endpoints and forwards the messages of the services.  Its     *)
(* messages are handled one at a time, in the order of its mailbox.        *)
(***************************************************************************)
\* websocket connections upgraded for the one cospace
MaxConns == 2

\* broadcasts of the services
MaxBroadcasts == 1

\* client messages that reach the cospace
MaxClientMsgs == 1

Conns == 1..MaxConns

Broadcasts == 1..MaxBroadcasts

\* CospaceActor::new, and no connection yet
InitCospace ==
    /\ cosp = [client_id_counter |-> 1, clients |-> {}, mailbox |-> <<>>,
               ids |-> <<>>, client_msgs |-> 0, heard |-> <<>>,
               asked |-> <<>>,
               informed |-> [s \in BodyServices \ {"Connection"} |-> <<>>],
               tell |-> [pc |-> "none", to |-> 0, clients |-> {}]]
    /\ conn = [k \in Conns |->
                [pc |-> "none", id |-> 0, socket |-> "none", told |-> <<>>]]
    /\ bcast = [b \in Broadcasts |-> [pc |-> "none", clients |-> {}]]

\* A message is put in the mailbox of the CospaceActor.
Post(m) == [cosp EXCEPT !.mailbox = Append(@, m)]

\* realtime_connect upgraded the socket and the WebsocketServiceActor asked
\* for the client actors: create_client_actor asks the cospace for an id.
create_client_actor(k) ==
    /\ conn[k].pc = "none"
    /\ UNCHANGED notCospace
    /\ conn' = [conn EXCEPT ![k].pc = "generate_id", ![k].socket = "open"]
    /\ cosp' = Post([type |-> "GenerateClientId", k |-> k, id |-> 0])
    /\ UNCHANGED bcast

\* handle_on_upgrade: the creator answered Some((id, addr)) and the cospace is
\* told of the connection.
handle_on_upgrade(k) ==
    /\ conn[k].pc = "created"
    /\ UNCHANGED notCospace
    /\ conn' = [conn EXCEPT ![k].pc = "informed"]
    /\ cosp' = Post([type |-> "Connect", k |-> k, id |-> conn[k].id])
    /\ UNCHANGED bcast

\* fut_socket_rx: the socket ends or a read fails, and the loop is left;
\* nobody is informed.
fut_socket_rx_ends(k) ==
    /\ conn[k].socket = "open"
    /\ conn[k].pc \in {"created", "informed"}
    /\ UNCHANGED notCospace
    /\ conn' = [conn EXCEPT ![k].socket = "closed"]
    /\ UNCHANGED <<cosp, bcast>>

\* A service calls tell_encoded with a Broadcast recipient.
tell_encoded_broadcast(b) ==
    /\ bcast[b].pc = "none"
    /\ UNCHANGED notCospace
    /\ bcast' = [bcast EXCEPT ![b].pc = "posted"]
    /\ cosp' = Post([type |-> "Broadcast", k |-> 0, id |-> b])
    /\ UNCHANGED conn

\* A service calls tell_encoded with the recipient Client(c); c may be an
\* id the cospace never gave out.
tell_encoded_client(c) ==
    /\ cosp.tell.pc = "none"
    /\ UNCHANGED notCospace
    /\ cosp' = [Post([type |-> "Tell", k |-> 0, id |-> c])
                    EXCEPT !.tell = [pc |-> "posted", to |-> c, clients |-> {}]]
    /\ UNCHANGED <<conn, bcast>>

\* fut_socket_rx reads a frame and the endpoint forwards it to the cospace
\* as a ClientMessage of its client.  create_client_actor spawns the loop
\* before it answers, so the loop runs from then on.
ClientMessageArrives(k) ==
    /\ cosp.client_msgs < MaxClientMsgs
    /\ conn[k].socket = "open"
    /\ conn[k].pc \in {"created", "informed"}
    /\ UNCHANGED notCospace
    /\ cosp' = [Post([type |-> "ClientMessage", k |-> k, id |-> conn[k].id])
                    EXCEPT !.client_msgs = @ + 1]
    /\ UNCHANGED <<conn, bcast>>

\* The message the CospaceActor handles next.
NextMessage == Head(cosp.mailbox)

Handles(t) == cosp.mailbox # <<>> /\ NextMessage.type = t

\* the id is taken after the counter was advanced
client_id_after_increment(counter) == counter + 1

\* handle(GenerateClientIdMessage): ClientId { id: self.client_id_counter, .. }
client_id(counter) == counter

\* handle(GenerateClientIdMessage): the id is the counter, which is then
\* advanced; create_client_actor goes on to create the actors and the loops.
HandleGenerateClientId ==
    /\ Handles("GenerateClientId")
    /\ UNCHANGED notCospace
    /\ LET id == client_id(cosp.client_id_counter) IN
        /\ cosp' = [cosp EXCEPT !.mailbox = Tail(@),
                                !.client_id_counter = @ + 1,
                                !.ids = Append(@, id)]
        /\ conn' = [conn EXCEPT ![NextMessage.k].pc = "created",
                                ![NextMessage.k].id = id]
    /\ UNCHANGED bcast

\* a broadcast that reaches the Core pool only
broadcast_core_only(informed, msg) ==
    [informed EXCEPT !["Core"] = Append(@, msg)]

\* ServicePoolMessenger::broadcast: the message is cloned and told to the
\* Core, Presence, Activity and Model pools.
broadcast(informed, msg) ==
    [s \in DOMAIN informed |-> Append(informed[s], msg)]

\* handle(ClientConnectionMessage): Connect inserts the endpoint under the
\* client id and broadcasts the message to the services, Disconnect removes
\* the endpoint.
HandleClientConnection ==
    /\ Handles("Connect") \/ Handles("Disconnect")
    /\ UNCHANGED notCospace
    /\ cosp' = [cosp EXCEPT
                  !.mailbox = Tail(@),
                  !.clients = IF NextMessage.type = "Connect"
                              THEN @ \cup {NextMessage.id}
                              ELSE @ \ {NextMessage.id},
                  !.informed = IF NextMessage.type = "Connect"
                               THEN broadcast(@, NextMessage.id)
                               ELSE @]
    /\ UNCHANGED <<conn, bcast>>

\* every client that was given an id
recipients_all(clients) == {conn[k].id : k \in Conns} \ {0}

\* handle(ServiceMessage), Broadcast: self.clients.values()
recipients(clients) == clients

\* handle(ServiceMessage) with route Tell(Broadcast(topic)): the message is
\* cloned and told to every endpoint of the map.
HandleServiceBroadcast ==
    /\ Handles("Broadcast")
    /\ UNCHANGED notCospace
    /\ LET b == NextMessage.id IN
        /\ bcast' = [bcast EXCEPT ![b] = [pc |-> "handled", clients |-> cosp.clients]]
        /\ conn' = [k \in Conns |->
                      IF conn[k].id \in recipients(cosp.clients)
                      THEN [conn[k] EXCEPT !.told = Append(@, b)]
                      ELSE conn[k]]
    /\ cosp' = [cosp EXCEPT !.mailbox = Tail(@)]

\* the endpoint that has the id, whether it is in the map or not
endpoint_of_any(clients, c) == {c}

\* handle(ServiceMessage), Client(client): self.clients.get(&client.id)
endpoint_of(clients, c) == IF c \in clients THEN {c} ELSE {}

\* handle(ServiceMessage) with route Tell(Client(client)): the message is
\* told to the endpoint of the client; without one it is logged and
\* dropped.  The message is entered as 0 in what the endpoint was told.
HandleServiceTell ==
    /\ Handles("Tell")
    /\ UNCHANGED notCospace
    /\ conn' = [k \in Conns |->
                  IF conn[k].id \in endpoint_of(cosp.clients, NextMessage.id)
                  THEN [conn[k] EXCEPT !.told = Append(@, 0)]
                  ELSE conn[k]]
    /\ cosp' = [cosp EXCEPT
                  !.mailbox = Tail(@),
                  !.tell = [pc |-> "handled", to |-> NextMessage.id,
                            clients |-> cosp.clients]]
    /\ UNCHANGED bcast

\* handle(ClientMessage): the message goes to the services; the client map
\* is not read.  heard keeps the sender and the map of that moment.
HandleClientMessage ==
    /\ Handles("ClientMessage")
    /\ UNCHANGED notCospace
    /\ cosp' = [cosp EXCEPT
                  !.mailbox = Tail(@),
                  !.heard = Append(@, [id |-> NextMessage.id,
                                       clients |-> cosp.clients])]
    /\ UNCHANGED <<conn, bcast>>

\* requests the services send to clients
MaxServiceAsks == 2

\* ServiceExecutionContext::ask_encoded with the client c, which may be an
\* id the cospace never gave out: the service asks the CospaceActor with a
\* ServiceMessage of route Ask(c) and awaits the answer.
ask_encoded(c) ==
    /\ Len(cosp.asked) < MaxServiceAsks
    /\ UNCHANGED notCospace
    /\ cosp' = [Post([type |-> "Ask", k |-> Len(cosp.asked) + 1, id |-> c])
                    EXCEPT !.asked = Append(@, [to |-> c, pc |-> "posted",
                                                clients |-> {},
                                                endpoints |-> {},
                                                result |-> "pending"])]
    /\ UNCHANGED <<conn, bcast>>

\* ask_encoded: addr.ask(msg).await.and_then(|result| result.ok_or(ErrDefault))
\* .map_err(|_| ProtoResponseError), for the answer Ok(Some) or Ok(None)
ask_encoded_result(some) == IF some THEN "Ok" ELSE "ProtoResponseError"

\* handle(ServiceMessage) with route Ask(client): with an endpoint in the
\* map the answer is the future of asking it, without one the answer is
\* Result(None) and the future of the service resolves.
HandleServiceAsk ==
    /\ Handles("Ask")
    /\ UNCHANGED notCospace
    /\ LET i == NextMessage.k
           addr == endpoint_of(cosp.clients, NextMessage.id)
       IN cosp' = [cosp EXCEPT
                !.mailbox = Tail(@),
                !.asked[i] = [@ EXCEPT
                    !.pc = IF addr = {} THEN "answered" ELSE "future",
                    !.clients = cosp.clients,
                    !.endpoints = addr,
                    !.result = IF addr = {} THEN ask_encoded_result(FALSE)
                               ELSE "pending"]]
    /\ UNCHANGED <<conn, bcast>>

\* The endpoint that was asked answers: recv_req_from_service completes
\* with the response of the client or with None.
EndpointAnswersAsk(i, some) ==
    /\ i \in DOMAIN cosp.asked
    /\ cosp.asked[i].pc = "future"
    /\ UNCHANGED notCospace
    /\ cosp' = [cosp EXCEPT !.asked[i] = [@ EXCEPT
                    !.pc = "answered",
                    !.result = ask_encoded_result(some)]]
    /\ UNCHANGED <<conn, bcast>>

\* Clients connect and services ask them.
ServiceAskStep ==
    \/ \E k \in Conns : create_client_actor(k)
    \/ \E k \in Conns : handle_on_upgrade(k)
    \/ HandleGenerateClientId
    \/ HandleClientConnection
    \/ \E c \in 1..(MaxConns + 1) : ask_encoded(c)
    \/ HandleServiceAsk
    \/ \E i \in 1..MaxServiceAsks, some \in BOOLEAN : EndpointAnswersAsk(i, some)

CospaceStep ==
    \/ \E k \in Conns : create_client_actor(k)
    \/ \E k \in Conns : handle_on_upgrade(k)
    \/ \E k \in Conns : fut_socket_rx_ends(k)
    \/ \E b \in Broadcasts : tell_encoded_broadcast(b)
    \/ \E c \in 1..(MaxConns + 1) : tell_encoded_client(c)
    \/ \E k \in Conns : ClientMessageArrives(k)
    \/ HandleGenerateClientId
    \/ HandleClientConnection
    \/ HandleServiceBroadcast
    \/ HandleServiceTell
    \/ HandleClientMessage

(***************************************************************************)
(* A shared node: CospaceNodeManager::shared creates one ServicePool whose *)
(* services hold the cospace map of the node, and every CospaceActor the   *)
(* node creates is inserted in that map.  A service reaches a client       *)
(* through the CospaceActor it finds in the map.                           *)
(***************************************************************************)
\* cospaces a shared node is asked to create
MaxSharedCospaces == 2

\* clients that connect to one cospace of the node
MaxSharedClients == 2

\* messages the shared services send
MaxSharedTells == 2

SharedIds == 1..MaxSharedCospaces

notNode ==
    <<placementVars, codecVars, promiseVars, cospaceVars, connectVars, hostVars>>

\* ServiceMessageRecipient
RecipientClient(x, n) == [kind |-> "Client", cospace |-> x, id |-> n]

RecipientBroadcast(x) == [kind |-> "Broadcast", cospace |-> x, id |-> 0]

\* The recipients a service may name: a ClientId it was given or one it
\* kept after the node lost the cospace, and the topic of a cospace.
Recipients ==
    {RecipientClient(x, n) : x \in SharedIds, n \in 1..MaxSharedClients}
        \cup {RecipientBroadcast(x) : x \in SharedIds}

\* CospaceNodeManager::shared: an empty map; no actor yet created
InitNode ==
    node = [cospaces |-> {},
            client_id_counter |-> [x \in SharedIds |-> 1],
            clients |-> [x \in SharedIds |-> {}],
            mailbox |-> [x \in SharedIds |-> <<>>],
            sent |-> <<>>]

\* handle(CreateCospaceActorMessage) of a shared node: the actor is built
\* with the services of the node and inserted in the map under the uuid,
\* which CospaceId::generate made fresh.
CreateCospaceActor(x) ==
    /\ x \notin node.cospaces
    /\ UNCHANGED notNode
    /\ node' = [node EXCEPT !.cospaces = @ \cup {x}]

\* A client connects to a cospace of the node: GenerateClientId and Connect
\* as the CospaceActor handles them.
SharedClientConnects(x) ==
    /\ x \in node.cospaces
    /\ node.client_id_counter[x] <= MaxSharedClients
    /\ UNCHANGED notNode
    /\ node' = [node EXCEPT
                  !.client_id_counter[x] = @ + 1,
                  !.clients[x] = @ \cup {node.client_id_counter[x]}]

\* cospace_addr that answers with an actor of the map whatever the key
cospace_addr_any(map, recipient) ==
    IF recipient.cospace \in map THEN {recipient.cospace}
    ELSE IF map = {} THEN {}
    ELSE {CHOOSE x \in map : TRUE}

\* ServiceExecutionContext::cospace_addr, Shared: the key is the uuid of
\* the cospace of the client or of the topic; map.get(&key)
cospace_addr(map, recipient) == map \cap {recipient.cospace}

\* tell_encoded of a shared service: the message is told to the address
\* cospace_addr gave, or only logged if it gave none.
shared_tell_encoded(r) ==
    /\ Len(node.sent) < MaxSharedTells
    /\ UNCHANGED notNode
    /\ LET addr == cospace_addr(node.cospaces, r)
           k == Len(node.sent) + 1
       IN node' = [node EXCEPT
                !.sent = Append(@, [recipient |-> r,
                                    map |-> node.cospaces,
                                    pc |-> IF addr = {} THEN "dropped" ELSE "told",
                                    by |-> 0,
                                    clients |-> {},
                                    got |-> {}]),
                !.mailbox = [x \in SharedIds |->
                                IF x \in addr THEN Append(@[x], k) ELSE @[x]]]

\* handle(ServiceMessage) of the CospaceActor of x, route Tell: a Client
\* recipient is looked up in the clients of this actor by its number, a
\* Broadcast goes to every client of this actor.
SharedHandleServiceMessage(x) ==
    /\ node.mailbox[x] # <<>>
    /\ UNCHANGED notNode
    /\ LET k == Head(node.mailbox[x])
           r == node.sent[k].recipient
           to == IF r.kind = "Client"
                    THEN endpoint_of(node.clients[x], r.id)
                    ELSE recipients(node.clients[x])
       IN node' = [node EXCEPT
                !.mailbox[x] = Tail(@),
                !.sent[k] = [@ EXCEPT !.pc = "handled",
                                      !.by = x,
                                      !.clients = node.clients[x],
                                      !.got = {<<x, n>> : n \in to}]]

NodeStep ==
    \/ \E x \in SharedIds : CreateCospaceActor(x)
    \/ \E x \in SharedIds : SharedClientConnects(x)
    \/ \E r \in Recipients : shared_tell_encoded(r)
    \/ \E x \in SharedIds : SharedHandleServiceMessage(x)

(***************************************************************************)
(* The host route: realtime_host builds the ModelRoot of the request and   *)
(* schedules the cospace; resolve_cospace_host_node_from_session_request   *)
(* answers Dedicated for every request.  The task moves the ModelRoot into *)
(* the CreateCospaceActorMessage it asks the node manager with.            *)
(***************************************************************************)
\* the strings of a request body
Names == {"universe", "world"}

\* HostSessionRequest
HostSessionRequest(w, n) == [model_workspace |-> w, model_namespace |-> n]

HostSessionRequests == {HostSessionRequest(w, n) : w \in Names, n \in Names}

\* ModelRoot
ModelRoot(namespace, workspace) == [namespace |-> namespace, workspace |-> workspace]

NoModelRoot == ModelRoot("", "")

InitHost ==
    host = [x \in CospaceIds |->
              [body |-> HostSessionRequest("", ""), model_root |-> NoModelRoot]]

\* realtime_host: let model_root = ModelRoot { namespace:
\* session_req.model_workspace, workspace: session_req.model_namespace }
model_root_of(session_req) ==
    ModelRoot(session_req.model_workspace, session_req.model_namespace)

\* realtime_host: the ModelRoot is built and given to
\* spawn_cospace_in_dedicated_node, which moves it into the task.
realtime_host(session_req) ==
    /\ schedule_in_dedicated_node(MaxCospaces)
    /\ host' = [host EXCEPT ![nextId + 1] =
                  [body |-> session_req, model_root |-> model_root_of(session_req)]]
    /\ UNCHANGED <<codecVars, promiseVars, cospaceVars, connectVars, nodeVars>>

\* spawn_cospace_in_node: CreateCospaceActorMessage::new(cospace_id,
\* model_root), the message the task of x asks the node manager with
CreateCospaceActorMessage(x) ==
    [cospace_id |-> x, model_root |-> host[x].model_root]

\* The host requests and the tasks they spawn.
HostStep ==
    \/ \E session_req \in HostSessionRequests : realtime_host(session_req)
    \/ \E x \in CospaceIds : TaskStep(x)

(***************************************************************************)
(* Specifications                                                          *)
(***************************************************************************)
Init ==
    /\ InitPlacement
    /\ InitCodec
    /\ InitPromise
    /\ InitCospace
    /\ InitConnect
    /\ InitNode
    /\ InitHost

Next ==
    \/ spawn_cospace_in_dedicated_node(MaxCospaces)
    \/ spawn_cospace_in_main_node(MaxCospaces)
    \/ spawn_cospace_in_shared_node(MaxCospaces)
    \/ \E x \in CospaceIds : TaskStep(x)
    \/ \E x \in CospaceIds : terminate_cospace(x)
    \/ \E x \in CospaceIds : StatusBegin(x)
    \/ StatusStep

Spec == Init /\ [][Next]_vars

\* The same system with fewer placements, for the properties of behaviours.
NextFair ==
    \/ spawn_cospace_in_dedicated_node(MaxFairCospaces)
    \/ spawn_cospace_in_main_node(MaxFairCospaces)
    \/ spawn_cospace_in_shared_node(MaxFairCospaces)
    \/ \E x \in CospaceIds : TaskStep(x)
    \/ \E x \in CospaceIds : terminate_cospace(x)
    \/ \E x \in CospaceIds : StatusBegin(x)
    \/ StatusStep

\* The placement tasks run on the actor system's executor and the status
\* handler on the HTTP server's: a step that stays enabled is taken.
FairSpec ==
    /\ Init /\ [][NextFair]_vars
    /\ \A x \in CospaceIds : WF_vars(TaskStep(x))
    /\ WF_vars(StatusStep)

CodecSpec == Init /\ [][CodecStep]_vars

PromiseSpec == Init /\ [][PromiseStep]_vars

EndpointSpec == Init /\ [][EndpointStep]_vars

\* The executor runs every spawned task and every actor handles its mailbox.
PromiseFairSpec ==
    /\ PromiseSpec
    /\ WF_vars(recv_proto_msg_from_client)
    /\ WF_vars(AskRuns)
    /\ WF_vars(ServiceAnswers)
    /\ WF_vars(recv_msg_from_server)
    /\ \A c \in Callers : WF_vars(Resume(c))

SocketSpec == Init /\ [][SocketStep]_vars

AskSpec == Init /\ [][AskStep]_vars

DuplexSpec == Init /\ [][DuplexStep]_vars

ConnectSpec == Init /\ [][ConnectStep]_vars

NodeSpec == Init /\ [][NodeStep]_vars

HostSpec == Init /\ [][HostStep]_vars

CospaceSpec == Init /\ [][CospaceStep]_vars

ServiceAskSpec == Init /\ [][ServiceAskStep]_vars

\* The actors and the tasks run on the executor of the actor system: a
\* message in the mailbox is handled and a task that can go on does.
CospaceFairSpec ==
    /\ CospaceSpec
    /\ WF_vars(HandleGenerateClientId)
    /\ WF_vars(HandleClientConnection)
    /\ WF_vars(HandleServiceBroadcast)
    /\ WF_vars(HandleServiceTell)
    /\ WF_vars(HandleClientMessage)
    /\ \A k \in Conns : WF_vars(handle_on_upgrade(k))

(***************************************************************************)
(* Claims about the registry and the placement tasks.                      *)
(***************************************************************************)
Returned(x) == task[x].pc \notin {"none", "not_spawned"}

PlacementErrors == {"spawn_worker", "get_remote_addr", "ask_none", "ask_err"}

\* C1: at every moment, between the steps of the registry operations too,
\* every cospace id is in at most one of scheduled, hosted and failed.
C1_AtMostOneMap ==
    \A x \in CospaceIds :
        /\ ~(is_scheduled(x) /\ is_hosted(x))
        /\ ~(is_scheduled(x) /\ is_failed(x))
        /\ ~(is_hosted(x) /\ is_failed(x))

\* C2: a placement that ended after a worker spawn failure, an address lookup
\* failure or a CreateCospaceActor ask that gave None or an error has moved
\* its cospace from scheduled to failed, and a status answered from then on
\* is FAILED.
C2_PlacementErrorMarksFailed ==
    \A x \in CospaceIds :
        (task[x].pc = "done" /\ mishap[x] \in PlacementErrors)
            => /\ is_failed(x)
               /\ ~is_scheduled(x)
               /\ (query.id = x /\ query.pc = "is_failed") => is_failed(x)

\* C3: once the spawn operation has returned the id, and unless a placement
\* step fails, the entry moves from scheduled to hosted, and a status request
\* that reads the registry while the cospace is hosted is answered HOSTED.
C3_EventuallyHosted ==
    \A x \in CospaceIds :
        /\ Returned(x) ~>
              \/ (is_hosted(x) /\ ~is_scheduled(x))
              \/ mishap[x] # "none"
              \/ terminated[x]
        /\ (query.id = x /\ query.pc = "is_hosted" /\ is_hosted(x)) ~>
              \/ (query.id = x /\ query.pc = "idle" /\ query.status = "HOSTED")
              \/ terminated[x]

C3_Witness ==
    \E x \in CospaceIds :
        /\ task[x].pc = "done" /\ mishap[x] = "none"
        /\ is_hosted(x) /\ ~is_scheduled(x)
        /\ query.id = x /\ query.pc = "idle" /\ query.status = "HOSTED"

\* C4: no dedicated placement has ended without a hosted cospace while the
\* worker process it launched is still running.
C4_NoOrphanWorker ==
    \A x \in CospaceIds :
        (/\ task[x].alloc = "Dedicated"
         /\ task[x].pc = "done"
         /\ mishap[x] \in PlacementErrors
         /\ ~is_hosted(x))
            => worker[x] # "running"

(***************************************************************************)
(* Claims about the frame codec.                                           *)
(***************************************************************************)
\* p is a valid message of service s: s names a service and p decodes.
ValidPayload(s, p) == s \in BodyServices /\ DecodeSvc(p).ok

\* C5: for every service s and every payload p valid for s, the frame built
\* by create_tell_message_from_service_payload(s, p) is classified by
\* process_realtime_message as Tell(s, p).
C5_TellRoundTrip ==
    (cin.op = "tell" /\ ValidPayload(cin.service, cin.payload))
        => /\ wire.some
           /\ cout # Pending => cout = Tell(cin.service, cin.payload)

\* C6: for every service s, id i > 0 and payload p valid for s, the frame of
\* make_request(i, s, p) is classified as Request(i, s, p) and the frame of
\* make_response(i, s, p) as Response(i, s, p).
C6_RequestResponseRoundTrip ==
    (/\ cin.op \in {"request", "response"}
     /\ cin.id > 0
     /\ ValidPayload(cin.service, cin.payload))
        => /\ wire.some
           /\ cout # Pending =>
                cout = IF cin.op = "request"
                       THEN Request(cin.id, cin.service, cin.payload)
                       ELSE Response(cin.id, cin.service, cin.payload)

\* The decoded envelope of the frame has both header ids non-zero.
BothIdsSet(bytes) ==
    /\ DecodeRt(bytes).ok
    /\ DecodeRt(bytes).msg.header.request_id # 0
    /\ DecodeRt(bytes).msg.header.response_id # 0

\* C7: a frame whose header has both request_id and response_id non-zero is
\* processed to Undefined, whatever its body.
C7_BothIdsUndefined ==
    (wire.some /\ BothIdsSet(wire.bytes) /\ cout # Pending) => cout = Undefined

C7_Witness ==
    /\ wire.some /\ BothIdsSet(wire.bytes)
    /\ DecodeRt(wire.bytes).msg.body.some
    /\ DecodeRt(wire.bytes).msg.body.service = "Core"
    /\ cout = Undefined

(***************************************************************************)
(* Claims about the promise tables.                                        *)
(***************************************************************************)
\* The ids of a sequence are pairwise distinct.
Distinct(ids) ==
    \A j, k \in DOMAIN ids : j # k => ids[j] # ids[k]

\* C8: every request id allocated by the server endpoint or by the client
\* broker is non-zero, and no request frame in flight is classified as a
\* Tell by the peer that receives it.
C8_RequestIdsNonZero ==
    /\ \A k \in DOMAIN ep.ids : ep.ids[k] # 0
    /\ \A k \in DOMAIN br.ids : br.ids[k] # 0
    /\ \A k \in DOMAIN s2c : process_realtime_message(s2c[k]).type # "Tell"
    /\ \A k \in DOMAIN c2s : process_realtime_message(c2s[k]).type # "Tell"

\* C9: the request ids allocated against one promise table, the endpoint's
\* or the broker's, are pairwise distinct, also when sends have failed.
C9_IdsPairwiseDistinct ==
    /\ Distinct(ep.ids)
    /\ Distinct(br.ids)

\* Both tables have allocated several ids, and a send failed on each side.
C9_Witness ==
    /\ Len(ep.ids) >= 2
    /\ Len(br.ids) >= 2
    /\ \E k \in DOMAIN ep.ids : ep.ids[k] \notin ep.service_promises
    /\ \E c \in Callers : caller[c].pc = "none"

\* C10: a call of send_proto_request_to_server made while another call
\* awaits its response is given an id of its own and awaits as well, and
\* every call that completes has the bytes of the Response that carried its
\* id.
C10_ConcurrentRequests ==
    /\ \A c \in Callers : caller[c].pc # "panicked"
    /\ \A c \in Callers :
        caller[c].pc \in {"completed", "resolved"}
            => [id |-> caller[c].id, bytes |-> caller[c].result] \in ep.answered

(***************************************************************************)
(* Claims about the CospaceActor.                                          *)
(***************************************************************************)
\* C11: the ids the CospaceActor has generated, in the order the requests
\* were handled, are 1, 2, 3, ..., whatever else it handled in between.
C11_ClientIdsFromOne ==
    \A j \in DOMAIN cosp.ids : cosp.ids[j] = j

\* Two ids were generated, and a Connect and a client message were handled
\* between them.
C11_Witness ==
    /\ Len(cosp.ids) >= 2
    /\ \E k \in Conns : conn[k].id = 2 /\ conn[k].pc = "created"
    /\ cosp.clients = {1}
    /\ cosp.client_msgs > 0 /\ cosp.mailbox = <<>>

\* C16: once the socket of a connected client has closed, the client is
\* eventually removed from the clients map of the cospace.
C16_DisconnectOnClose ==
    \A k \in Conns :
        (conn[k].socket = "closed" /\ conn[k].id \in cosp.clients)
            ~> (conn[k].id \notin cosp.clients)

\* How many times broadcast b was told to connection k.
ToldCount(k, b) ==
    Cardinality({j \in DOMAIN conn[k].told : conn[k].told[j] = b})

\* C20: a broadcast that was handled has been forwarded exactly once to each
\* endpoint that was in the clients map when it was handled and to no other
\* endpoint, also not to one connected afterwards; a broadcast not yet
\* handled has been forwarded to nobody.
C20_BroadcastSnapshot ==
    \A b \in Broadcasts, k \in Conns :
        ToldCount(k, b) =
            IF bcast[b].pc = "handled" /\ conn[k].id \in bcast[b].clients
            THEN 1 ELSE 0

\* A broadcast reached the one client of the map, and a client connected
\* afterwards did not get it.
C20_Witness ==
    \E b \in Broadcasts, k, j \in Conns :
        /\ bcast[b].pc = "handled"
        /\ bcast[b].clients = {conn[k].id}
        /\ conn[k].told = <<b>>
        /\ conn[j].id \in cosp.clients \ bcast[b].clients
        /\ conn[j].told = <<>>

(***************************************************************************)
(* Claims about the server endpoint and the frames of one client.          *)
(***************************************************************************)
\* C12: every frame a response task has enqueued belongs to one request
\* that was received; its header carries response_id = the id of that
\* request and request_id = 0, its body the service of the request, so that
\* it is a Response; and no request has two such frames, in whatever order
\* the answers of the services arrive.
C12_ResponseCarriesRequestId ==
    /\ \A q \in ep.replied : \E d \in ep.done :
        /\ d.seq = q.seq
        /\ DecodeRt(q.frame).ok
        /\ DecodeRt(q.frame).msg.header = SomeHeader(0, d.id)
        /\ DecodeRt(q.frame).msg.body.some
        /\ DecodeRt(q.frame).msg.body.service = d.service
        /\ process_realtime_message(q.frame).type = "Response"
    /\ \A q1, q2 \in ep.replied : q1.seq = q2.seq => q1 = q2

\* Two requests with different ids were in flight together and the second
\* was answered first.
C12_Witness ==
    \E q1, q2 \in ep.replied :
        /\ q1.seq = 1 /\ q2.seq = 2
        /\ process_realtime_message(q1.frame).id # process_realtime_message(q2.frame).id
        /\ s2c = <<q2.frame, q1.frame>>

\* C13: a request to a service of the cospace that the service answered
\* with bytes has a Response with response_id = its id among the frames the
\* endpoint has enqueued.
C13_ServiceAnswerIsEnqueued ==
    \A d \in ep.done :
        d.served /\ d.service # "Connection" =>
            \E q \in ep.replied :
                /\ q.seq = d.seq
                /\ process_realtime_message(q.frame).type = "Response"
                /\ process_realtime_message(q.frame).id = d.id

\* C14: every frame enqueued for a tell of a service is one that the peer's
\* process_realtime_message classifies as Tell(sender, payload).
C14_TellIsCodecBuilt ==
    \A t \in ep.told :
        process_realtime_message(t.frame) = Tell(t.service, t.bytes)

\* C15: the ClientMessages of the frames addressed to the services of the
\* cospace reach the mailbox of the cospace in the order in which the
\* frames were received.
C15_OrderPreserved ==
    \A i, j \in DOMAIN ep.to_cospace :
        i < j => ep.to_cospace[i] < ep.to_cospace[j]

\* the ticket is a signed, unexpired ticket of the sdk for the handshake
ValidMessageTicket(t) ==
    t \in DOMAIN Tickets /\ Tickets[t] = Ticket(TRUE, "sdk", "message", FALSE)

\* C19: once the connection service has answered a handshake request with
\* id i and ticket t, exactly one frame was enqueued for it: the Response
\* with response_id = i whose body is HandshakeRes{success}, success being
\* true exactly for a valid, unexpired message ticket.
C19_HandshakeAnswered ==
    \A d \in ep.done, t \in TicketIds :
        d.service = "Connection" /\ d.bytes = create_ticket_handshake_request(t) =>
            /\ \E q \in ep.replied :
                /\ q.seq = d.seq
                /\ process_realtime_message(q.frame) =
                    Response(d.id, "Connection",
                        create_ticket_handshake_response(ValidMessageTicket(t)))
            /\ Cardinality({q \in ep.replied : q.seq = d.seq}) = 1

\* A handshake with a good ticket was answered with success and one with an
\* expired ticket with failure.
C19_Witness ==
    \E d1, d2 \in ep.done, q1, q2 \in ep.replied :
        /\ d1.bytes = create_ticket_handshake_request(1)
        /\ d2.bytes = create_ticket_handshake_request(4)
        /\ d1.service = "Connection" /\ d2.service = "Connection"
        /\ q1.seq = d1.seq /\ q2.seq = d2.seq
        /\ process_realtime_message(q1.frame).bytes = create_ticket_handshake_response(TRUE)
        /\ process_realtime_message(q2.frame).bytes = create_ticket_handshake_response(FALSE)

\* C17: every promise inserted in the table of the endpoint or of the
\* broker is eventually removed, also when no Response comes for it.
C17_PromiseExpires ==
    /\ \A i \in 0..MaxAsks :
        (i \in ep.service_promises) ~> (i \notin ep.service_promises)
    /\ \A i \in 1..MaxCalls :
        (i \in br.service_promises) ~> (i \notin br.service_promises)

(***************************************************************************)
(* Claims about the websocket route.                                       *)
(***************************************************************************)
\* the ticket of the query is a signed, unexpired query ticket of the sdk
ValidQueryTicket(t) ==
    t \in DOMAIN Tickets /\ Tickets[t] = Ticket(TRUE, "sdk", "query", FALSE)

\* C18: a connect request is upgraded exactly when its ticket is valid and
\* the cospace is in the hosted map; an invalid or missing ticket is
\* answered 400 Invalid token whatever the registry holds; and a valid
\* ticket for a cospace that is scheduled, failed or unknown is answered
\* 401 Wrong credentials.
C18_ConnectResponses ==
    connect.response # "none" =>
        /\ connect.response = "upgrade"
            <=> (ValidQueryTicket(connect.ticket) /\ connect.hosted)
        /\ ~ValidQueryTicket(connect.ticket) => connect.response = InvalidToken
        /\ ( /\ ValidQueryTicket(connect.ticket)
             /\ \/ connect.scheduled
                \/ connect.failed
                \/ ~connect.hosted )
            => connect.response = WrongCredentials

(***************************************************************************)
(* Claims about the transitions of the registry.                           *)
(***************************************************************************)
\* The state of an id as realtime_status reads the registry: hosted before
\* scheduled before failed.
RegistryState(x) ==
    IF is_hosted(x) THEN "hosted"
    ELSE IF is_scheduled(x) THEN "scheduled"
    ELSE IF is_failed(x) THEN "failed"
    ELSE "none"

AllowedTransitions ==
    {<<"none", "scheduled">>, <<"scheduled", "hosted">>,
     <<"scheduled", "failed">>, <<"hosted", "none">>}

\* C24: every step that changes the registry state of a cospace id takes it
\* from none to scheduled, from scheduled to hosted, from scheduled to
\* failed or from hosted to none.
C24_RegistryTransitions ==
    [][\A x \in CospaceIds :
        RegistryState(x)' # RegistryState(x) =>
            <<RegistryState(x), RegistryState(x)'>> \in AllowedTransitions]_vars

(***************************************************************************)
(* Claims about the CospaceActor and the services.                         *)
(***************************************************************************)
\* how many times the Connect of client c was told to the pool of service s
InformedCount(s, c) ==
    Cardinality({j \in DOMAIN cosp.informed[s] : cosp.informed[s][j] = c})

\* C27: once the Connect of a client was handled, the client is in the
\* clients map and each of the Core, Presence, Activity and Model pools was
\* told that Connect exactly once; a client whose Connect was not handled
\* is in no map and no pool was told of it.
C27_ConnectToldToServices ==
    \A k \in Conns : conn[k].id # 0 =>
        \A s \in {"Core", "Presence", "Activity", "Model"} :
            InformedCount(s, conn[k].id) =
                IF conn[k].id \in cosp.clients THEN 1 ELSE 0

\* Two clients are connected and every pool was told of both.
C27_Witness ==
    /\ cosp.clients = {1, 2}
    /\ \A s \in {"Core", "Presence", "Activity", "Model"} :
        Len(cosp.informed[s]) = 2

\* C28: a message of a service for Client(c) that the CospaceActor has
\* handled was told to the endpoint of c alone, once, if c was in the
\* clients map then, and to no endpoint otherwise; one not yet handled was
\* told to nobody; and handling it leaves the clients map as it was.
C28_TellToClient ==
    /\ [](\A k \in Conns :
            ToldCount(k, 0) =
                IF /\ cosp.tell.pc = "handled"
                   /\ conn[k].id = cosp.tell.to
                   /\ cosp.tell.to \in cosp.tell.clients
                THEN 1 ELSE 0)
    /\ [][cosp.tell.pc = "posted" /\ cosp'.tell.pc = "handled"
            => cosp'.clients = cosp.clients]_vars

\* A message for a client that has an id but is not yet in the map was
\* dropped, while another client is in the map.
C28_Witness ==
    \E k, j \in Conns :
        /\ cosp.tell.pc = "handled"
        /\ conn[k].id = cosp.tell.to /\ conn[k].id # 0
        /\ conn[k].id \notin cosp.tell.clients
        /\ conn[j].id \in cosp.tell.clients
        /\ conn[k].told = <<>> /\ conn[j].told = <<>>

(***************************************************************************)
(* Claims about the frames the endpoint handles.                           *)
(***************************************************************************)
\* the frame does not decode, lacks the header or the body (as a frame of
\* an unknown service does), or has both ids set
IsProtocolError(frame) ==
    LET d == DecodeRt(frame) IN
    \/ ~d.ok
    \/ ~d.msg.header.some
    \/ ~d.msg.body.some
    \/ d.msg.header.request_id # 0 /\ d.msg.header.response_id # 0

\* the step handles the oldest frame of the socket
HandlesFrame == c2s # <<>> /\ ep'.frames = ep.frames + 1

\* C21: handling a frame that is a protocol error changes nothing but the
\* count of the frames handled: no ClientMessage is sent, no task is
\* spawned, nothing is enqueued to the socket, the promise table and the
\* request id counter stay, and the frames after it are handled.
C21_ProtocolErrorDropped ==
    [][HandlesFrame /\ IsProtocolError(Head(c2s)) =>
        /\ ep' = [ep EXCEPT !.frames = @ + 1,
                            !.handled = Append(@, Summary(Undefined))]
        /\ s2c' = s2c]_vars

\* With a promise pending, a protocol error was dropped and the request
\* after it was handled.
C21_Witness ==
    /\ ep.service_promises # {}
    /\ Len(ep.handled) = 2
    /\ ep.handled[1].type = "Undefined"
    /\ ep.handled[2].type = "Request"
    /\ \E r \in ep.asked : r.seq = 2

\* C22: a Response whose id is in the promise table completes the promise
\* of that id with its bytes and removes the entry; no id is completed
\* twice, and a completed id is no longer in the table.
C22_ResponseCompletesOnce ==
    /\ [](\A c1, c2 \in ep.completed : c1.id = c2.id => c1 = c2)
    /\ [](\A c \in ep.completed : c.id \notin ep.service_promises)
    /\ [][LET m == process_realtime_message(Head(c2s)) IN
          HandlesFrame /\ m.type = "Response" /\ m.id \in ep.service_promises =>
            /\ ep'.service_promises = ep.service_promises \ {m.id}
            /\ ep'.completed = ep.completed \cup
                    {[id |-> m.id, bytes |-> m.bytes, seq |-> ep'.frames]}]_vars

\* The promise of id 1 was completed by the first frame, and a second
\* Response with id 1 delivered nothing.
C22_Witness ==
    /\ Len(ep.handled) = 2
    /\ ep.handled[1] = Summary(Response(1, "Core", <<>>))
    /\ ep.handled[2] = Summary(Response(1, "Core", <<>>))
    /\ \E c \in ep.completed : ep.completed = {c} /\ c.id = 1 /\ c.seq = 1

\* C23: handling a Response whose id is not in the promise table changes
\* nothing but the count of the frames handled: the table, the counter and
\* the other promises stay, nothing is completed and nothing is sent.
C23_UnmatchedResponseNoOp ==
    [][LET m == process_realtime_message(Head(c2s)) IN
       HandlesFrame /\ m.type = "Response" /\ m.id \notin ep.service_promises =>
        /\ ep' = [ep EXCEPT !.frames = @ + 1,
                            !.handled = Append(@, Summary(m))]
        /\ s2c' = s2c]_vars

\* A Response with id 2 was handled while the promises of 0 and 1 waited.
C23_Witness ==
    /\ ep.service_promises = {0, 1}
    /\ ep.completed = {}
    /\ \E j \in DOMAIN ep.handled :
        ep.handled[j].type = "Response" /\ ep.handled[j].id = 2

\* C25: every ClientMessage the endpoint has sent comes from a Tell or a
\* Request it handled, with route Tell or Ask and the service of the frame;
\* it went to the connection service if that service is Connection and to
\* the cospace otherwise, and nothing else reached the cospace.
C25_RoutedByService ==
    /\ \A m \in ep.msgs :
        /\ m.seq \in DOMAIN ep.handled
        /\ ep.handled[m.seq].type \in {"Tell", "Request"}
        /\ m.route = (IF ep.handled[m.seq].type = "Tell" THEN "Tell" ELSE "Ask")
        /\ m.service = ep.handled[m.seq].service
        /\ m.to = (IF m.service = "Connection" THEN "connection" ELSE "cospace")
    /\ \A j \in DOMAIN ep.to_cospace :
        \E m \in ep.msgs : m.seq = ep.to_cospace[j] /\ m.to = "cospace"
    /\ \A m \in ep.msgs :
        m.to = "cospace" => \E j \in DOMAIN ep.to_cospace : ep.to_cospace[j] = m.seq

\* A Tell went to the connection service and an Ask to the cospace.
C25_Witness ==
    \E m1, m2 \in ep.msgs :
        /\ m1.route = "Tell" /\ m1.service = "Connection" /\ m1.to = "connection"
        /\ m2.route = "Ask" /\ m2.service = "Core" /\ m2.to = "cospace"

\* C26: every step that handles a frame handles the oldest frame that is
\* on the socket and leaves the later ones in their order.
C26_FramesInArrivalOrder ==
    [][ep'.frames # ep.frames =>
        /\ HandlesFrame
        /\ c2s' = Tail(c2s)
        /\ ep'.handled = Append(ep.handled,
                            Summary(process_realtime_message(Head(c2s))))]_vars

\* A Request and then a Tell were handled.
C26_Witness ==
    /\ Len(ep.handled) = 2
    /\ ep.handled[1].type = "Request"
    /\ ep.handled[2].type = "Tell"

\* C29: a request whose ask gave no response has no frame on the socket:
\* the socket holds only the responses of the answered requests and the
\* requests of the services; and the end of a request's task leaves the
\* promise table and the request id counter as they were.
C29_NoFrameWithoutResponse ==
    /\ [](\A d \in ep.done :
            ~d.served => ~\E q \in ep.replied : q.seq = d.seq)
    /\ [](Len(s2c) = Cardinality(ep.replied) + Cardinality(ep.service_promises)
                        + Cardinality(ep.completed))
    /\ [][ep'.done # ep.done =>
            /\ ep'.service_promises = ep.service_promises
            /\ ep'.request_id_counter = ep.request_id_counter]_vars

\* The ask of a request gave nothing while a promise waited, and the socket
\* holds the request of the service alone.
C29_Witness ==
    /\ \E d \in ep.done : ~d.served /\ d.service = "Core"
    /\ ep.replied = {}
    /\ Cardinality(ep.service_promises) = 1
    /\ Len(s2c) = 1

(***************************************************************************)
(* Claims about the shared node.                                           *)
(***************************************************************************)
InMailbox(x, k) == \E j \in DOMAIN node.mailbox[x] : node.mailbox[x][j] = k

\* C30: a message of a shared service for Client(n, X) or for the topic of
\* X is dropped if X is not in the cospace map when it is sent; otherwise it
\* is in the mailbox of the CospaceActor of X and of no other, that actor
\* handles it, and it reaches only endpoints of the clients map of X: n if
\* it is there, or all of them for a broadcast.
C30_SharedRoutedByCospace ==
    \A k \in DOMAIN node.sent :
        LET m == node.sent[k]
            X == m.recipient.cospace
        IN /\ \A x \in SharedIds \ {X} : ~InMailbox(x, k)
           /\ X \notin m.map => m.pc = "dropped" /\ ~InMailbox(X, k)
           /\ X \in m.map => m.pc \in {"told", "handled"}
           /\ m.pc = "told" <=> InMailbox(X, k)
           /\ m.pc # "handled" => m.got = {}
           /\ m.pc = "handled" =>
                /\ m.by = X
                /\ m.got = {<<X, n>> : n \in
                              IF m.recipient.kind = "Client"
                                THEN m.clients \cap {m.recipient.id}
                                ELSE m.clients}

\* Both cospaces have a client 1; a message for client 1 of the first
\* reached that endpoint alone, and a message for a cospace not in the map
\* was dropped.
C30_Witness ==
    /\ \A x \in SharedIds : 1 \in node.clients[x]
    /\ \E k \in DOMAIN node.sent :
        /\ node.sent[k].recipient = RecipientClient(1, 1)
        /\ node.sent[k].pc = "handled"
        /\ node.sent[k].got = {<<1, 1>>}
    /\ \E k \in DOMAIN node.sent : node.sent[k].pc = "dropped"

(***************************************************************************)
(* Claims about the answers of realtime_status.                            *)
(***************************************************************************)
\* C33: a status query for an id that a spawn operation had returned when
\* the query came, and that is not terminated when it is answered, is never
\* answered NOT_FOUND.
C33_NeverNotFound ==
    ~(/\ query.pc = "idle"
      /\ query.live
      /\ ~terminated[query.id]
      /\ query.status = "NOT_FOUND")

Created(x) == task[x].pc \in {"insert_cospace", "insert_remove"} \/ is_hosted(x)

\* C40: the CreateCospaceActorMessage of a cospace scheduled for the body
\* {model_workspace: w, model_namespace: n} carries the ModelRoot with
\* namespace n and workspace w.
C40_ModelRootOfRequest ==
    \A x \in 1..nextId :
        Created(x) =>
          CreateCospaceActorMessage(x).model_root =
              ModelRoot(host[x].body.model_namespace,
                        host[x].body.model_workspace)

(***************************************************************************)
(* Claims about the promise table of the server endpoint.                  *)
(***************************************************************************)
\* C38: every key of the promise table of the endpoint is the id of an ask
\* whose Request frame was handed to the socket, and is less than the
\* request id counter; an ask whose frame was not handed to the socket, or
\* whose payload is text, got None and its id is no key of the table.
C38_PromiseTableKeys ==
    /\ \A id \in ep.service_promises :
        /\ id < ep.request_id_counter
        /\ \E j \in DOMAIN ep.asks :
            ep.asks[j].binary /\ ep.asks[j].id = id /\ ep.asks[j].enqueued
    /\ \A j \in DOMAIN ep.asks :
        ~ep.asks[j].binary \/ ~ep.asks[j].enqueued =>
            /\ ~ep.asks[j].some
            /\ ep.asks[j].binary => ep.asks[j].id \notin ep.service_promises

\* A promise waits for the first ask; the second ask came after the socket
\* closed, got None and left no promise.
C38_Witness ==
    /\ ep.service_promises = {0}
    /\ ~ep.feeder_open
    /\ ep.request_id_counter = 2
    /\ \E j \in DOMAIN ep.asks :
        ep.asks[j].binary /\ ep.asks[j].id = 1 /\ ~ep.asks[j].some

(***************************************************************************)
(* Claims about the two directions of one socket.                          *)
(***************************************************************************)
\* C31: the ids of the two directions are apart.  On the server a Response
\* of the client with id i removes the promise of i and nothing else, and
\* leaves the requests of the client that wait for their reply, whatever
\* their ids; the reply to a request of the client carries the id of that
\* request and leaves the promise table alone.  On the client a Request of
\* the server changes no promise of the broker, and a Response of the server
\* with id i completes the call of id i only.
C31_IdSpacesApart ==
    /\ [][LET m == process_realtime_message(Head(c2s)) IN
          HandlesFrame /\ m.type = "Response" =>
            /\ ep'.service_promises = ep.service_promises \ {m.id}
            /\ ep'.asked = ep.asked
            /\ ep'.done = ep.done
            /\ ep'.replied = ep.replied
            /\ s2c' = s2c]_vars
    /\ [][ep'.done # ep.done =>
            /\ ep'.service_promises = ep.service_promises
            /\ ep'.completed = ep.completed]_vars
    /\ [](\A q \in ep.replied :
            \E d \in ep.done :
                /\ d.seq = q.seq
                /\ process_realtime_message(q.frame).type = "Response"
                /\ process_realtime_message(q.frame).id = d.id)
    /\ [][s2c # <<>> /\ s2c' = Tail(s2c) =>
            LET m == process_realtime_message(Head(s2c)) IN
            /\ c2s' = c2s
            /\ m.type # "Response" => br' = br /\ caller' = caller
            /\ m.type = "Response" =>
                /\ br'.service_promises = br.service_promises \ {m.id}
                /\ \A c \in Callers :
                    caller[c].id # m.id => caller'[c] = caller[c]]_vars

\* The id 1 went both ways: the promise of the server's request 1 was
\* completed by a Response of the client, and the client's request 1 was
\* answered and its call completed.
C31_Witness ==
    /\ \E c \in ep.completed : c.id = 1
    /\ \E d \in ep.done : d.id = 1 /\ d.served
    /\ \E c \in Callers : caller[c].pc = "completed" /\ caller[c].id = 1

(***************************************************************************)
(* Claims about handshakes that fail.                                      *)
(***************************************************************************)
\* d is an answered handshake request with ticket t
IsHandshake(d, t) ==
    d.service = "Connection" /\ d.bytes = create_ticket_handshake_request(t)

\* the handshake response sent for the request of frame seq says success
AnsweredWith(seq, success) ==
    \E q \in ep.replied :
        /\ q.seq = seq
        /\ process_realtime_message(q.frame).bytes =
                create_ticket_handshake_response(success)

C34_NothingBeforeHandshake ==
    (\E m \in ep.msgs : m.to = "cospace") =>
        \E seq \in 1..ep.frames : AnsweredWith(seq, TRUE)

(***************************************************************************)
(* Claims about the messages the cospace gets from the endpoint.           *)
(***************************************************************************)
\* C36: every ClientMessage the endpoint has sent to the cospace, a Tell or
\* an Ask, names one of Core, Presence, Activity and Model, so that the
\* CospaceActor finds the pool of its service and does not panic in
\* ServicePool.tell.
C36_CospaceGetsItsServices ==
    \A m \in ep.msgs :
        m.to = "cospace" =>
            /\ m.service \in {"Core", "Presence", "Activity", "Model"}
            /\ cospace_handle_client_message(m) \in {"told", "asked"}

\* A Tell for Core went to the cospace, which told it to the Core pool,
\* and a request for the Connection service went to the connection service.
C36_Witness ==
    /\ \E m \in ep.msgs :
        /\ m.to = "cospace" /\ m.route = "Tell" /\ m.service = "Core"
        /\ cospace_handle_client_message(m) = "told"
    /\ \E m \in ep.msgs :
        m.to = "connection" /\ m.route = "Ask" /\ m.service = "Connection"

\* C35: the CospaceActor handles Connect(c) before any ClientMessage of c:
\* whenever it handled a message of a client, Connect had put that client
\* in its map (so that a Tell to Client(c) that answers finds c there).
C35_ConnectBeforeMessages ==
    \A i \in DOMAIN cosp.heard : cosp.heard[i].id \in cosp.heard[i].clients

\* C39: a ServiceMessage Ask(c) the CospaceActor handled while c was not in
\* its client map is answered in the handler with None: the request of the
\* service has resolved to ProtoResponseError, no endpoint was asked and so
\* none holds a promise for it; it does not wait for a client.
C39_AskOfUnknownClientFails ==
    \A i \in DOMAIN cosp.asked :
        (cosp.asked[i].pc # "posted" /\ cosp.asked[i].to \notin cosp.asked[i].clients)
            => /\ cosp.asked[i].pc = "answered"
               /\ cosp.asked[i].result = "ProtoResponseError"
               /\ cosp.asked[i].endpoints = {}

\* A client is in the map, a service asked for a client that is not, and
\* the request has failed; a request for the connected client waits for
\* its endpoint.
C39_Witness ==
    /\ cosp.clients # {}
    /\ \E i \in DOMAIN cosp.asked :
        /\ cosp.asked[i].pc = "answered"
        /\ cosp.asked[i].to \notin cosp.asked[i].clients
        /\ cosp.asked[i].clients # {}
        /\ cosp.asked[i].result = "ProtoResponseError"
    /\ \E i \in DOMAIN cosp.asked :
        /\ cosp.asked[i].pc = "future"
        /\ cosp.asked[i].endpoints = {cosp.asked[i].to}

====
